---------------------------- MODULE Spec2Model ----------------------------
(***************************************************************************)
(* A model of the course-evaluation analysis scripts: the ColumnMapper     *)
(* lookup tables, the size classifiers (SizeRangeAnalyzer, categorize_size,*)
(* MetricsCalculator.classify_courses_by_size) and the loaders.            *)
(*                                                                         *)
(* Column names.  The source uses Korean column names, which cannot occur  *)
(* in a TLA+ string; they are written in Revised Romanization:             *)
(*   nyeondo = 년도            hakgi = 학기          kaempeoseu = 캠퍼스   *)
(*   gaeseoldangwadaehak = 개설단과대학             gangjwabeonho = 강좌번호*)
(*   gyogwakodeu = 교과코드    gyogwamokmyeong = 교과목명                  *)
(*   gyosumyeong = 교수명      gyobeon = 교번        seolmunN = 설문N      *)
(*   eungdapja_su = 응답자 수  pyeonggyun_jeomsu = 평균 점수               *)
(***************************************************************************)
EXTENDS Integers, Sequences, FiniteSets, TLC

VARIABLES
    variant,    \* ColumnMapper: which ColumnMapper class of the repository was constructed
    kr_to_en,   \* ColumnMapper.kr_to_en: a dict, as its sequence of <<key, value>> items
    en_to_kr,   \* ColumnMapper.en_to_kr
    call,       \* the last call made on the mapper: [op, arg, ret]
    courses,    \* the per-course table (df) handed to SizeRangeAnalyzer.process_data
    size_ranges,\* SizeRangeAnalyzer.size_ranges: the four SizeRange objects
    processed,  \* whether process_data has returned
    students,   \* the number of rows (students) of one GroupCode: a value of course_sizes
    size_label, \* what categorize_size returned for it ("" before the call)
    cut_label,  \* the Size that classify_courses_by_size gave it ("" before the call)
    prog,       \* the loader that runs: which load_data, or which script's main()
    file,       \* the input: [exists, parses, cols, year_ok]
    pc,         \* where the run is: "start", a step of main(), "done" or "raised"
    result,     \* what the last call gave its caller: [ret, err, raised, named]
    trace,      \* the steps performed so far, in order
    stored,     \* whether the loader holds loaded data (self.data, self.df, metrics)
    written,    \* the files written so far
    dirs,       \* the directories created so far
    tool,       \* the analysis that runs: which analyzer class or application
    raw,        \* the records of its input file, as read: cells are strings
    data,       \* self.data: [loaded, rows, cols], rows with coerced items
    stats,      \* the statistics produced so far: a set of rows
    ranking,    \* the last top-N list produced: a sequence of [group, value]
    phase,      \* where the analysis is: "start", a stage, "done" or "raised"
    failure,    \* the exception of the last call ("none" when there was none)
    request,    \* the group_by argument of the last call of calculate_descriptive_stats
    held,       \* SurveyDataAnalyzer.data of survey_analysis_app.py: None or a table
    calls,      \* the number of method calls made so far on the object of the run
    summary_stats, \* CourseEvalProcessor.summary_stats: the keys the dict holds
    preview,    \* update_pages.py: whether --preview was given (args.preview)
    pages,      \* the HTML files of a site script, in the order of its list
    handles     \* the file handles that are open

mapperVars == <<variant, kr_to_en, en_to_kr, call>>

sizeVars == <<courses, size_ranges, processed>>

classVars == <<students, size_label, cut_label>>

loadVars == <<prog, file, pc, result, trace, stored, written, dirs>>

statsVars == <<tool, raw, data, stats, ranking, phase, failure, request>>

objectVars == <<held, calls, summary_stats>>

siteVars == <<preview, pages, handles>>

vars == <<mapperVars, sizeVars, classVars, loadVars, statsVars, objectVars, siteVars>>

(***************************************************************************)
(* Python dicts, as insertion-ordered sequences of <<key, value>> items    *)
(* with pairwise distinct keys.                                            *)
(***************************************************************************)
Keys(d) == {d[i][1] : i \in 1..Len(d)}

Values(d) == {d[i][2] : i \in 1..Len(d)}

\* d.get(k, default)
Get(d, k, default) ==
    IF k \in Keys(d)
    THEN LET i == CHOOSE j \in 1..Len(d) : d[j][1] = k IN d[i][2]
    ELSE default

\* d[k] = v : an existing key keeps its place and takes the new value
Put(d, k, v) ==
    IF k \in Keys(d)
    THEN [i \in 1..Len(d) |-> IF d[i][1] = k THEN <<k, v>> ELSE d[i]]
    ELSE Append(d, <<k, v>>)

RECURSIVE InvertFrom(_, _, _)
InvertFrom(d, i, acc) ==
    IF i > Len(d) THEN acc
    ELSE InvertFrom(d, i + 1, Put(acc, d[i][2], d[i][1]))

\* {v: k for k, v in d.items()}
Invert(d) == InvertFrom(d, 1, <<>>)


(***************************************************************************)
(* ColumnMapper.  Six classes of that name exist; they differ in the table *)
(* and in whether to_english / to_korean test isinstance(cols, str).       *)
(***************************************************************************)
\* survey_analysis_app.py and "survey_analysis_app copy 3.py": twelve entries
Table12 ==
    << <<"nyeondo", "year">>, <<"hakgi", "semester">>, <<"kaempeoseu", "campus">>,
       <<"gaeseoldangwadaehak", "college">>, <<"gyogwamokmyeong", "course_name">>,
       <<"seolmun1", "q1">>, <<"seolmun2", "q2">>, <<"seolmun3", "q3">>,
       <<"seolmun4", "q4">>, <<"seolmun5", "q5">>, <<"seolmun6", "q6">>,
       <<"seolmun7", "q7">> >>

\* survey_analysis_app-v2-no-error.py and the second class of "survey_analysis_app copy.py"
Table16 ==
    << <<"nyeondo", "year">>, <<"hakgi", "semester">>, <<"kaempeoseu", "campus">>,
       <<"gaeseoldangwadaehak", "college">>, <<"gangjwabeonho", "course_number">>,
       <<"gyogwakodeu", "course_code">>, <<"gyogwamokmyeong", "course_name">>,
       <<"gyosumyeong", "professor">>, <<"gyobeon", "professor_id">>,
       <<"seolmun1", "q1">>, <<"seolmun2", "q2">>, <<"seolmun3", "q3">>,
       <<"seolmun4", "q4">>, <<"seolmun5", "q5">>, <<"seolmun6", "q6">>,
       <<"seolmun7", "q7">> >>

\* survey_analysis_app-v1-no-error.py and the first class of "survey_analysis_app copy.py"
Table23 ==
    << <<"nyeondo", "year">>, <<"hakgi", "semester">>, <<"kaempeoseu", "campus">>,
       <<"gaeseoldangwadaehak", "college">>, <<"gangjwabeonho", "course_number">>,
       <<"gyogwakodeu", "course_code">>, <<"gyogwamokmyeong", "course_name">>,
       <<"gyosumyeong", "professor">>, <<"gyobeon", "professor_id">>,
       <<"seolmun1", "q1">>, <<"seolmun2", "q2">>, <<"seolmun3", "q3">>,
       <<"seolmun4", "q4">>, <<"seolmun5", "q5">>, <<"seolmun6", "q6">>,
       <<"seolmun7", "q7">>, <<"seolmun8", "q8">>,
       <<"semester_id", "semester_id">>, <<"avg_score", "avg_score">>,
       <<"normalized_score", "norm_score">>,
       <<"response_completeness", "response_rate">>,
       <<"department", "department">>, <<"course_category", "course_type">> >>

\* The ColumnMapper classes: app = survey_analysis_app.py, copy3 = "survey_analysis_app
\* copy 3.py", v1 / v2 = the two drafts, copy_a / copy_b = the first and the second
\* class of "survey_analysis_app copy.py".
Variants == {"app", "copy3", "v1", "v2", "copy_a", "copy_b"}

\* KrToEnLiteral with a pasted entry left pointing at the value of its neighbour
KrToEnLiteralDup(v) ==
    CASE v \in {"app", "copy3"} -> [Table12 EXCEPT ![12] = <<"seolmun7", "q6">>]
      [] v \in {"v2", "copy_b"} -> [Table16 EXCEPT ![16] = <<"seolmun7", "q6">>]
      [] v \in {"v1", "copy_a"} -> [Table23 EXCEPT ![17] = <<"seolmun8", "q7">>]

\* the dict literal assigned to self.kr_to_en by __init__
KrToEnLiteral(v) ==
    CASE v \in {"app", "copy3"} -> Table12
      [] v \in {"v2", "copy_b"} -> Table16
      [] v \in {"v1", "copy_a"} -> Table23

\* whether to_english / to_korean start with "if isinstance(cols, str): return ...get(cols, cols)"
HasStrBranch(v) == v \in {"app", "copy3", "copy_b"}

(***************************************************************************)
(* Python values passed to and returned by the mapper: a str or a list of  *)
(* str.  Iterating a str yields its characters; Chars gives them for the   *)
(* names the model passes (a Hangul syllable is one character).            *)
(***************************************************************************)
PyStr(s) == [t |-> "str", s |-> s, l |-> <<>>]

PyList(l) == [t |-> "list", s |-> "", l |-> l]

Chars(s) ==
    CASE s = "nyeondo" -> <<"nyeon", "do">>
      [] s = "seolmun1" -> <<"seol", "mun", "1">>
      [] s = "seolmun8" -> <<"seol", "mun", "8">>
      [] s = "hakbeon" -> <<"hak", "beon">>
      [] s = "q1" -> <<"q", "1">>
      [] s = "avg_score" -> <<"a", "v", "g", "_", "s", "c", "o", "r", "e">>
      [] s = "norm_score" -> <<"n", "o", "r", "m", "_", "s", "c", "o", "r", "e">>
      [] s = "" -> <<>>

\* "for col in cols": the elements of a list, the characters of a str
Iter(x) == IF x.t = "str" THEN Chars(x.s) ELSE x.l

\* Translate with d.get(col): a missing name becomes None
TranslateNoDefault(d, cols) == [i \in 1..Len(cols) |-> Get(d, cols[i], "None")]

\* [d.get(col, col) for col in cols]
Translate(d, cols) == [i \in 1..Len(cols) |-> Get(d, cols[i], cols[i])]

\* ColumnMapper.to_english / to_korean over the table d of the direction
Convert(v, d, x) ==
    IF HasStrBranch(v) /\ x.t = "str"
    THEN PyStr(Get(d, x.s, x.s))
    ELSE PyList(Translate(d, Iter(x)))

\* ColumnMapper.get_display_name (absent from app and copy3)
GetDisplayName(d, col) == Get(d, col, col)

(***************************************************************************)
(* SizeRange and SizeRangeAnalyzer (size_range_analyzer.py).               *)
(*                                                                         *)
(* A row of the per-course table is [name, resp, score]: name is the rank  *)
(* of the course identifier in ascending lexical order, resp the column    *)
(* eungdapja_su (response count), score the column pyeonggyun_jeomsu       *)
(* (average score) in hundredths.                                          *)
(***************************************************************************)
\* Python's None where the code holds an int
None == -1

\* the value of SizeRange.data: None, or a frame (its rows in order)
DataNone == [none |-> TRUE, rows |-> <<>>]

DataFrame(rows) == [none |-> FALSE, rows |-> rows]

\* the value of SizeRange.percentage: None, or the float num / den
PctNone == [none |-> TRUE, num |-> 0, den |-> 1]

Pct(num, den) == [none |-> FALSE, num |-> num, den |-> den]

\* SizeRange.__init__
SizeRange(min_size, max_size) ==
    [min_size |-> min_size, max_size |-> max_size,
     data |-> DataNone, percentage |-> PctNone, count |-> None]

\* SizeRangeAnalyzer.__init__, with a second range starting one too late
SizeRangesGap ==
    << SizeRange(10, 21), SizeRange(22, 51), SizeRange(51, 101), SizeRange(101, None) >>

\* SizeRangeAnalyzer.__init__
SizeRangesInit ==
    << SizeRange(10, 21), SizeRange(21, 51), SizeRange(51, 101), SizeRange(101, None) >>

\* the mask of process_data, with the upper bound included
InRangeClosed(r, c) ==
    /\ c >= r.min_size
    /\ r.max_size # None => c <= r.max_size

\* the mask of process_data: (resp >= min_size) & (resp < max_size) when max_size is given
InRange(r, c) ==
    /\ c >= r.min_size
    /\ r.max_size # None => c < r.max_size

\* df[mask]: the rows of df that satisfy the mask, in the order of df
RECURSIVE Filter(_, _)
Filter(df, r) ==
    IF df = <<>> THEN <<>>
    ELSE LET rest == Filter(Tail(df), r)
         IN IF InRange(r, Head(df).resp) THEN <<Head(df)>> \o rest ELSE rest

\* the head(10) of process_data
TopN == 10

\* df.head(n)
HeadRows(df, n) == IF Len(df) <= n THEN df ELSE SubSeq(df, 1, n)

IsPermutation(p, n) == \A k \in 1..n : \E i \in 1..n : p[i] = k

\* sort_values sorts in ascending order instead of descending
SortedAscending(df) ==
    {[i \in 1..Len(df) |-> df[p[i]]] :
        p \in {q \in [1..Len(df) -> 1..Len(df)] :
                 /\ IsPermutation(q, Len(df))
                 /\ \A i, j \in 1..Len(df) : i < j => df[q[i]].score <= df[q[j]].score}}

\* the ways to list the rows of df at the positions S with no row before a row of
\* higher score
RECURSIVE Arranged(_, _)
Arranged(df, S) ==
    IF S = {} THEN {<<>>}
    ELSE UNION {{<<df[i]>> \o t : t \in Arranged(df, S \ {i})} :
                   i \in {j \in S : \A k \in S : df[j].score >= df[k].score}}

\* df.sort_values(pyeonggyun_jeomsu, ascending=False): the default kind, quicksort, is
\* not stable, so rows of equal score may come out in any order
SortedDescending(df) == Arranged(df, DOMAIN df)

\* process_data leaves the data of a range alone when no course falls in the range
ProcessRangeKeepsData(r, df, sorted) ==
    LET filtered_df == Filter(df, r)
        total_courses == Len(df)
        count == Len(filtered_df)
    IN [r EXCEPT
          !.count = count,
          !.percentage = IF total_courses > 0 THEN Pct(count * 100, total_courses)
                         ELSE Pct(0, 1),
          !.data = IF filtered_df # <<>> THEN DataFrame(HeadRows(sorted, TopN))
                   ELSE r.data]

\* one pass of the loop of process_data over a size range; sorted is the outcome of
\* sort_values on the filtered rows
ProcessRange(r, df, sorted) ==
    LET filtered_df == Filter(df, r)
        total_courses == Len(df)
        count == Len(filtered_df)
    IN [r EXCEPT
          !.count = count,
          !.percentage = IF total_courses > 0 THEN Pct(count * 100, total_courses)
                         ELSE Pct(0, 1),
          !.data = IF filtered_df # <<>> THEN DataFrame(HeadRows(sorted, TopN))
                   ELSE DataNone]

\* SizeRangeAnalyzer.process_data(df): the loop over the four ranges
ProcessData ==
    /\ ~processed
    /\ \E s1 \in SortedDescending(Filter(courses, size_ranges[1])),
          s2 \in SortedDescending(Filter(courses, size_ranges[2])),
          s3 \in SortedDescending(Filter(courses, size_ranges[3])),
          s4 \in SortedDescending(Filter(courses, size_ranges[4])) :
            size_ranges' = << ProcessRange(size_ranges[1], courses, s1),
                              ProcessRange(size_ranges[2], courses, s2),
                              ProcessRange(size_ranges[3], courses, s3),
                              ProcessRange(size_ranges[4], courses, s4) >>
    /\ processed' = TRUE
    /\ UNCHANGED <<courses, mapperVars, classVars, loadVars, statsVars, objectVars, siteVars>>

\* The float arithmetic of process_data.  count / total_courses * 100 is computed in
\* IEEE 754 double precision: the quotient is rounded to 53 significant bits, and so
\* is its product with 100.  A number is [bits, lsb]: the bits of an integer, most
\* significant first, times 2 to the power lsb; the empty sequence of bits is 0.
SignificantBits == 53

Float(bits, lsb) == [bits |-> bits, lsb |-> lsb]

Zeros(n) == [i \in 1..n |-> 0]

\* bits without its leading zeros
Trim(bits) ==
    IF \A i \in DOMAIN bits : bits[i] = 0 THEN <<>>
    ELSE LET first == CHOOSE i \in DOMAIN bits :
                          bits[i] = 1 /\ \A j \in 1..(i - 1) : bits[j] = 0
         IN SubSeq(bits, first, Len(bits))

\* the sum of two integers given by their bits: a carry enters position i when some
\* lower position generates one and every position between passes it on
AddBits(a, b) ==
    LET n == (IF Len(a) > Len(b) THEN Len(a) ELSE Len(b)) + 1
        x == Zeros(n - Len(a)) \o a
        y == Zeros(n - Len(b)) \o b
        carry(i) == \E j \in (i + 1)..n :
                       /\ x[j] + y[j] = 2
                       /\ \A k \in (i + 1)..(j - 1) : x[k] + y[k] = 1
    IN Trim([i \in 1..n |-> (x[i] + y[i] + IF carry(i) THEN 1 ELSE 0) % 2])

\* the sum of two numbers, exactly
Sum(x, y) ==
    LET lsb == IF x.lsb < y.lsb THEN x.lsb ELSE y.lsb
    IN Float(AddBits(x.bits \o Zeros(x.lsb - lsb), y.bits \o Zeros(y.lsb - lsb)), lsb)

\* whether x > y
Exceeds(x, y) ==
    LET lsb == IF x.lsb < y.lsb THEN x.lsb ELSE y.lsb
        a == Trim(x.bits \o Zeros(x.lsb - lsb))
        b == Trim(y.bits \o Zeros(y.lsb - lsb))
    IN \/ Len(a) > Len(b)
       \/ /\ Len(a) = Len(b)
          /\ \E i \in DOMAIN a : a[i] > b[i] /\ \A j \in 1..(i - 1) : a[j] = b[j]

\* 2 to the power k, modulo t, by repeated squaring
RECURSIVE PowMod(_, _)
PowMod(k, t) ==
    IF k = 0 THEN 1 % t
    ELSE LET h == PowMod(k \div 2, t)
         IN (h * h * (IF k % 2 = 1 THEN 2 ELSE 1)) % t

\* the first n bits after the binary point of r / t, where r < t, and what remains
Quotient(r, t, n) ==
    [bits |-> [k \in 1..n |-> (2 * ((r * PowMod(k - 1, t)) % t)) \div t],
     rem |-> (r * PowMod(n, t)) % t]

\* the number of zeros that follow the binary point of r / t, where 0 < r < t
RECURSIVE LeadingZeros(_, _)
LeadingZeros(r, t) == IF 2 * r >= t THEN 0 ELSE 1 + LeadingZeros(2 * r, t)

RECURSIVE TwoTo(_)
TwoTo(n) == IF n = 0 THEN 1 ELSE 2 * TwoTo(n - 1)

\* round to nearest, ties to even: x, whose first bit is 1, cut to 53 significant bits;
\* sticky tells whether the exact value has nonzero bits beyond those of x
RoundToNearestEven(x, sticky) ==
    LET n == Len(x.bits)
        kept == SubSeq(x.bits, 1, SignificantBits)
        guard == x.bits[SignificantBits + 1]
        beyond == sticky \/ \E i \in (SignificantBits + 2)..n : x.bits[i] = 1
        up == guard = 1 /\ (beyond \/ kept[SignificantBits] = 1)
        rounded == IF up THEN AddBits(kept, <<1>>) ELSE kept
    IN IF n <= SignificantBits THEN x
       ELSE IF Len(rounded) > SignificantBits
       THEN Float(SubSeq(rounded, 1, SignificantBits), x.lsb + (n - SignificantBits) + 1)
       ELSE Float(rounded, x.lsb + (n - SignificantBits))

\* the float c / t for ints 0 <= c <= t, t > 0
FloatDiv(c, t) ==
    IF c = 0 THEN Float(<<>>, 0)
    ELSE IF c = t THEN Float(<<1>>, 0)
    ELSE LET z == LeadingZeros(c, t)
             q == Quotient(c * TwoTo(z), t, SignificantBits + 1)
         IN RoundToNearestEven(Float(q.bits, 0 - (z + SignificantBits + 1)), q.rem # 0)

\* the float x * 100: 100 x = 64 x + 32 x + 4 x, rounded
FloatTimes100(x) ==
    RoundToNearestEven(
        Float(AddBits(AddBits(x.bits \o Zeros(6), x.bits \o Zeros(5)), x.bits \o Zeros(2)),
              x.lsb),
        FALSE)

\* the value the expression of size_range.percentage evaluates to: the int 0 when
\* there is no course, the float (count / total_courses) * 100 otherwise
FloatPercentage(p) ==
    IF p.den = 1 /\ p.num = 0 THEN Float(<<>>, 0)
    ELSE FloatTimes100(FloatDiv(p.num \div 100, p.den))

(***************************************************************************)
(* The Small / Medium / Large / Very Large classifiers:                    *)
(* categorize_size (class_size_analyzer0104.py) and                        *)
(* MetricsCalculator.classify_courses_by_size (calculate_metrics.py).      *)
(***************************************************************************)
\* categorize_size with the comparisons written < : a boundary goes to the higher category
CategorizeSizeStrict(count) ==
    IF count < 15 THEN "Small"
    ELSE IF count < 30 THEN "Medium"
    ELSE IF count < 75 THEN "Large"
    ELSE "Very Large"

\* categorize_size(count)
categorize_size(count) ==
    IF count <= 15 THEN "Small"
    ELSE IF count <= 30 THEN "Medium"
    ELSE IF count <= 75 THEN "Large"
    ELSE "Very Large"

\* float('inf'), the last bin edge
Inf == -2

\* bins and labels of the pd.cut call
Bins == <<0, 15, 30, 75, Inf>>

Labels == <<"Small", "Medium", "Large", "Very Large">>

\* pd.cut(x, bins, labels) with its defaults right=True, include_lowest=False: the
\* label of the interval (bins[i], bins[i+1]] that holds x, NaN when none does
Cut(x, bins, labels) ==
    LET hit == {i \in 1..Len(labels) :
                  /\ bins[i] < x
                  /\ bins[i + 1] = Inf \/ x <= bins[i + 1]}
    IN IF hit = {} THEN "NaN" ELSE labels[CHOOSE i \in hit : TRUE]

\* the variables of an object on which no method is called
ObjectIdle ==
    /\ held = DataNone
    /\ calls = 0
    /\ summary_stats = {}

\* the variables of a run that opens no file of a site
SiteIdle ==
    /\ preview = FALSE
    /\ pages = <<>>
    /\ handles = {}

\* the class variables of a run that classifies nothing
ClassIdle ==
    /\ students = 0
    /\ size_label = ""
    /\ cut_label = ""

\* the size variables of a run that builds no SizeRangeAnalyzer
SizeIdle ==
    /\ courses = <<>>
    /\ size_ranges = <<>>
    /\ processed = FALSE

\* the mapper variables of a run that builds no ColumnMapper
MapperIdle ==
    /\ variant = "none"
    /\ kr_to_en = <<>>
    /\ en_to_kr = <<>>
    /\ call = [op |-> "none", arg |-> PyStr(""), ret |-> PyStr("")]

\* what a call gives its caller: the value returned ("none" when it raised or returns
\* nothing), the exception that ended it ("none" when there was none), whether that
\* exception reached the caller, and the column names its message holds
Outcome(ret, err, raised, named) ==
    [ret |-> ret, err |-> err, raised |-> raised, named |-> named]

NoOutcome == Outcome("none", "none", FALSE, {})

\* the loader variables of a run that loads nothing
LoadIdle ==
    /\ prog = "none"
    /\ file = [exists |-> FALSE, parses |-> FALSE, cols |-> {}, year_ok |-> FALSE]
    /\ pc = "done"
    /\ result = NoOutcome
    /\ trace = <<>>
    /\ stored = FALSE
    /\ written = {}
    /\ dirs = {}

\* self.data before any load
NoData == [loaded |-> FALSE, rows |-> <<>>, cols |-> {}]

\* the analysis variables of a run that analyses nothing
StatsIdle ==
    /\ tool = "none"
    /\ raw = <<>>
    /\ data = NoData
    /\ stats = {}
    /\ ranking = <<>>
    /\ phase = "done"
    /\ failure = "none"
    /\ request = ""

\* group sizes examined: 1 .. MaxStudents (a GroupCode of the table has at least one row)
MaxStudents == 1000

ClassInit ==
    /\ students \in 1..MaxStudents
    /\ size_label = ""
    /\ cut_label = ""
    /\ MapperIdle
    /\ SizeIdle
    /\ LoadIdle
    /\ StatsIdle
    /\ ObjectIdle
    /\ SiteIdle

\* analyze_class_sizes: class_sizes['Students'].apply(categorize_size)
CategorizeSize ==
    /\ size_label = ""
    /\ size_label' = categorize_size(students)
    /\ UNCHANGED <<students, cut_label, mapperVars, sizeVars, loadVars, statsVars, objectVars, siteVars>>

\* MetricsCalculator.classify_courses_by_size: the Size column of the result
ClassifyCoursesBySize ==
    /\ cut_label = ""
    /\ cut_label' = Cut(students, Bins, Labels)
    /\ UNCHANGED <<students, size_label, mapperVars, sizeVars, loadVars, statsVars, objectVars, siteVars>>

ClassNext == CategorizeSize \/ ClassifyCoursesBySize

SpecClass == ClassInit /\ [][ClassNext]_vars

(***************************************************************************)
(* SizeRangeAnalyzer as a state machine: the analyzer is constructed, then *)
(* process_data runs once on the per-course table of the loaded file (the  *)
(* application builds a new analyzer for every run of its script).  The   *)
(* table has the three columns process_data reads (gyogwamokmyeong,        *)
(* eungdapja_su, pyeonggyun_jeomsu); what process_data does with the table *)
(* of load_data, which lacks the first, is ProcessUpTo below.              *)
(***************************************************************************)
MaxCourses == 3

\* response counts: below the first range, and on each side of every boundary
RespValues == {9, 10, 20, 21, 50, 51, 100, 101}

\* average scores, in hundredths
ScoreValues == {400, 450}

\* the per-course tables: load_data builds them with groupby, which sorts by the course
\* identifier, so row i holds the course of rank i
CourseTables ==
    UNION {[1..n -> [name : {0}, resp : RespValues, score : ScoreValues]] : n \in 0..MaxCourses}

Ranked(t) == [i \in 1..Len(t) |-> [t[i] EXCEPT !.name = i]]


SizeInit ==
    /\ courses \in {Ranked(t) : t \in CourseTables}
    /\ size_ranges = SizeRangesInit
    /\ processed = FALSE
    /\ MapperIdle
    /\ ClassIdle
    /\ LoadIdle
    /\ StatsIdle
    /\ ObjectIdle
    /\ SiteIdle

SizeNext == ProcessData

SpecSize == SizeInit /\ [][SizeNext]_vars

\* the largest number of courses of the tables below
MaxTotal == 12

\* a response count below the first range, and one in each of the four ranges
ClassResp == <<9, 10, 21, 51, 101>>

\* how many courses a table has of each of these response counts
CountVectors ==
    {v \in [1..5 -> 0..MaxTotal] : v[1] + v[2] + v[3] + v[4] + v[5] <= MaxTotal}

\* the table with v[c] courses of response count ClassResp[c], whose scores all differ
TableOf(v) ==
    LET upto(c) == IF c = 0 THEN 0
                   ELSE IF c = 1 THEN v[1]
                   ELSE IF c = 2 THEN v[1] + v[2]
                   ELSE IF c = 3 THEN v[1] + v[2] + v[3]
                   ELSE IF c = 4 THEN v[1] + v[2] + v[3] + v[4]
                   ELSE v[1] + v[2] + v[3] + v[4] + v[5]
    IN [i \in 1..upto(5) |->
          [name |-> i,
           resp |-> ClassResp[CHOOSE c \in 1..5 : upto(c - 1) < i /\ i <= upto(c)],
           score |-> 300 + i]]

\* process_data on the tables of up to MaxTotal courses, by the number of courses in
\* each range
SummaryInit ==
    /\ courses \in {TableOf(v) : v \in CountVectors}
    /\ size_ranges = SizeRangesInit
    /\ processed = FALSE
    /\ MapperIdle
    /\ ClassIdle
    /\ LoadIdle
    /\ StatsIdle
    /\ ObjectIdle
    /\ SiteIdle

SpecSummary == SummaryInit /\ [][SizeNext]_vars

(***************************************************************************)
(* The mapper as a state machine: construction, then any calls.            *)
(***************************************************************************)
MaxCols == 2

\* names passed in the model: table keys, table values, entries that only the larger
\* tables hold, and a name (hakbeon) no table holds
InputNames ==
    {"nyeondo", "seolmun1", "seolmun8", "hakbeon", "q1", "avg_score", "norm_score"}

RECURSIVE SeqsUpTo(_, _)
SeqsUpTo(S, n) ==
    IF n = 0 THEN {<<>>}
    ELSE LET shorter == SeqsUpTo(S, n - 1)
         IN shorter \cup {Append(q, e) : q \in {r \in shorter : Len(r) = n - 1}, e \in S}

MapperArgs ==
    {PyStr(s) : s \in InputNames} \cup {PyList(l) : l \in SeqsUpTo(InputNames, MaxCols)}

NoCall == [op |-> "none", arg |-> PyStr(""), ret |-> PyStr("")]

\* ColumnMapper.__init__
MapperInit ==
    /\ variant \in Variants
    /\ kr_to_en = KrToEnLiteral(variant)
    /\ en_to_kr = Invert(KrToEnLiteral(variant))
    /\ call = NoCall
    /\ SizeIdle
    /\ ClassIdle
    /\ LoadIdle
    /\ StatsIdle
    /\ ObjectIdle
    /\ SiteIdle

ToEnglish(x) ==
    /\ call' = [op |-> "to_english", arg |-> x, ret |-> Convert(variant, kr_to_en, x)]
    /\ UNCHANGED <<variant, kr_to_en, en_to_kr, sizeVars, classVars, loadVars, statsVars, objectVars, siteVars>>

ToKorean(x) ==
    /\ call' = [op |-> "to_korean", arg |-> x, ret |-> Convert(variant, en_to_kr, x)]
    /\ UNCHANGED <<variant, kr_to_en, en_to_kr, sizeVars, classVars, loadVars, statsVars, objectVars, siteVars>>

MapperNext ==
    \/ \E x \in MapperArgs : ToEnglish(x)
    \/ \E x \in MapperArgs : ToKorean(x)

SpecMapper == MapperInit /\ [][MapperNext]_vars


(***************************************************************************)
(* The loaders.  An input file is described by whether it exists, whether  *)
(* the parser (pd.read_csv, json.load) accepts it, the columns of its      *)
(* header (for a JSON file: its top-level keys) and whether every value of *)
(* its year column converts to int.  For survey_analysis_app.py, courses   *)
(* is the per-course table that groupby builds from the rows of the file.  *)
(***************************************************************************)
SurveyItems ==
    {"seolmun1", "seolmun2", "seolmun3", "seolmun4",
     "seolmun5", "seolmun6", "seolmun7", "seolmun8"}

\* col.startswith(seolmun), for the column names of the model
StartsWithSeolmun(col) == col \in SurveyItems

\* the other columns of an uploaded file
KrOtherCols ==
    {"gyogwamokmyeong", "gangjwabeonho", "gaeseoldangwadaehak", "gyogwakodeu",
     "nyeondo", "hakgi", "kaempeoseu", "gyosumyeong"}

\* the survey columns an uploaded file may hold
KrSurveySets ==
    { {}, {"seolmun1"}, {"seolmun2"}, {"seolmun8"}, {"seolmun2", "seolmun8"},
      SurveyItems \ {"seolmun8"}, SurveyItems \ {"seolmun1"}, SurveyItems }

KrColumnSets == {o \cup q : o \in SUBSET KrOtherCols, q \in KrSurveySets}

\* self.survey_cols of MetricsCalculator, survey_cols of CourseEvalProcessor
survey_cols ==
    {"Survey1", "Survey2", "Survey3", "Survey4", "Survey5", "Survey6", "Survey7"}

EnOtherCols ==
    {"College", "Campus", "GroupCode", "CourseCode", "CourseName", "Department",
     "ProfessorID"}

EnColumnSets ==
    {o \cup q : o \in SUBSET EnOtherCols,
                q \in { {}, survey_cols \ {"Survey1"}, survey_cols }}

\* the top-level keys of a metrics file
MetricsKeys == {"evaluation", "performance", "demographics", "additional", "class_sizes"}

File(exists, parses, cols, year_ok) ==
    [exists |-> exists, parses |-> parses, cols |-> cols, year_ok |-> year_ok]

\* a file that is not there, and a file the parser rejects
NoFile == File(FALSE, FALSE, {}, FALSE)

BadFile == File(TRUE, FALSE, {}, FALSE)

\* an uploaded file is an open file object: it exists
UploadedFiles ==
    {BadFile} \cup {File(TRUE, TRUE, c, y) : c \in KrColumnSets, y \in BOOLEAN}

CsvFiles == {NoFile, BadFile} \cup {File(TRUE, TRUE, c, TRUE) : c \in EnColumnSets}

JsonFiles == {NoFile, BadFile} \cup {File(TRUE, TRUE, c, TRUE) : c \in SUBSET MetricsKeys}

\* os.path.exists always answers yes
ExistsAlways(f) == TRUE

\* os.path.exists(data_file); also whether open() finds the file
Exists(f) == f.exists

Programs ==
    {"app", "v1", "copy3", "metrics", "processor", "advanced", "html", "class_size"}

\* the per-course tables of the files uploaded to survey_analysis_app.py: no row, one
\* course below the first size range, one course in it, one of each
AppTables ==
    { <<>>,
      << [name |-> 1, resp |-> 9, score |-> 400] >>,
      << [name |-> 1, resp |-> 10, score |-> 400] >>,
      << [name |-> 1, resp |-> 9, score |-> 450], [name |-> 2, resp |-> 21, score |-> 400] >> }

\* required_cols of load_data in survey_analysis_app.py
required_cols == {"gyogwamokmyeong", "gangjwabeonho", "gaeseoldangwadaehak"}

\* whether load_data of survey_analysis_app.py gets as far as building course_stats
Aggregates(f) ==
    /\ f.parses
    /\ required_cols \subseteq f.cols
    /\ "seolmun1" \in f.cols

\* the numbers of records of the files given to analyze_class_sizes; the records
\* of a file belong to one GroupCode
RecordCounts == {0, 1, 16}

LoadInit ==
    /\ prog \in Programs
    /\ file \in CASE prog \in {"app", "v1", "copy3"} -> UploadedFiles
                  [] prog \in {"metrics", "processor", "advanced", "class_size"} -> CsvFiles
                  [] OTHER -> JsonFiles
    /\ prog \in {"app", "v1"} => file.year_ok = file.parses
    /\ pc = "start"
    /\ result = NoOutcome
    /\ trace = <<>>
    /\ stored = FALSE
    /\ written = {}
    /\ dirs = {}
    /\ courses \in IF prog = "app" /\ Aggregates(file) THEN AppTables ELSE {<<>>}
    /\ size_ranges = IF prog = "app" THEN SizeRangesInit ELSE <<>>
    /\ processed = FALSE
    /\ MapperIdle
    /\ students \in IF prog = "class_size" /\ file.parses THEN RecordCounts ELSE {0}
    /\ size_label = ""
    /\ cut_label = ""
    /\ StatsIdle
    /\ held = DataNone
    /\ calls = 0
    /\ summary_stats = {}
    /\ SiteIdle

\* open(): the handle is open from now on
Opened(hs, h) == hs \cup {h}

\* close(), or the end of the with block that opened the handle
Closed(hs, h) == hs \ {h}

\* The steps recorded in trace: exists = os.path.exists, open = read_csv opening its
\* path, read_csv / json_load = the parser reading the content, columns = the check of
\* the columns, to_numeric = the coercion of the survey columns, groupby = the
\* aggregation by course, process_data / classify = the size classification, metrics
\* = a computation of metrics, write = the writing of an output file, combine = the
\* column of row means, statistics = a method that computes statistics.
\*
\* the end of a step: the position reached, what the caller got, the steps performed,
\* whether data is held, and the files and directories that were created
Step(p, r, steps, st, wr, dr) ==
    /\ pc' = p
    /\ result' = r
    /\ trace' = trace \o steps
    /\ stored' = st
    /\ written' = written \cup wr
    /\ dirs' = dirs \cup dr
    /\ UNCHANGED <<prog, file, mapperVars, classVars, statsVars>>

\* the first size range that holds a course of df, 0 when none does
FirstNonEmpty(ranges, df) ==
    IF \A r \in 1..Len(ranges) : Filter(df, ranges[r]) = <<>> THEN 0
    ELSE CHOOSE r \in 1..Len(ranges) :
            /\ Filter(df, ranges[r]) # <<>>
            /\ \A q \in 1..(r - 1) : Filter(df, ranges[q]) = <<>>

\* process_data on course_stats, whose columns do not include gyogwamokmyeong (the
\* flattening of load_data names the key columns course_id_ and gaeseoldangwadaehak_,
\* so its rename of course_id changes nothing): the ranges before range k hold no
\* course and are processed; range k is the first that holds one, it is processed and
\* then logging size_range.data[[gyogwamokmyeong, ...]] raises KeyError, which leaves
\* the ranges after it untouched.  k = 0 when no range holds a course.
ProcessUpTo(ranges, df, k, sorted) ==
    [r \in 1..Len(ranges) |->
        IF k = 0 \/ r < k THEN ProcessRange(ranges[r], df, <<>>)
        ELSE IF r = k THEN ProcessRange(ranges[r], df, sorted)
        ELSE ranges[r]]

\* the number of load_data calls examined on one SurveyDataAnalyzer
MaxLoads == 2

\* SurveyDataAnalyzer.load_data of survey_analysis_app.py; self.data and the size
\* ranges keep what earlier calls left in them until the call assigns them
AppLoadData ==
    /\ prog = "app"
    /\ pc = "start"
    /\ calls' = calls + 1
    /\ LET missing_cols == required_cols \ file.cols
           survey == {col \in file.cols : StartsWithSeolmun(col) /\ col # "seolmun8"}
           k == FirstNonEmpty(size_ranges, courses)
       IN IF ~file.parses
          THEN /\ Step("done", Outcome("False", "ParserError", FALSE, {}),
                       <<"read_csv">>, stored, {}, {})
               /\ UNCHANGED <<sizeVars, held>>
          ELSE IF missing_cols # {}
          THEN /\ Step("done", Outcome("False", "ValueError", FALSE, missing_cols),
                       <<"read_csv", "columns">>, stored, {}, {})
               /\ UNCHANGED <<sizeVars, held>>
          ELSE IF survey = {}
          THEN /\ Step("done", Outcome("False", "ValueError", FALSE, {}),
                       <<"read_csv", "columns">>, stored, {}, {})
               /\ UNCHANGED <<sizeVars, held>>
          ELSE IF "seolmun1" \notin survey
          THEN /\ Step("done", Outcome("False", "KeyError", FALSE, {"seolmun1_count"}),
                       <<"read_csv", "columns", "to_numeric", "groupby">>, stored, {}, {})
               /\ UNCHANGED <<sizeVars, held>>
          ELSE IF k = 0
          THEN /\ Step("done", Outcome("True", "none", FALSE, {}),
                       <<"read_csv", "columns", "to_numeric", "groupby", "store",
                         "process_data">>, TRUE, {}, {})
               /\ held' = DataFrame(courses)
               /\ size_ranges' = ProcessUpTo(size_ranges, courses, 0, <<>>)
               /\ processed' = TRUE
               /\ UNCHANGED courses
          ELSE /\ Step("done", Outcome("False", "KeyError", FALSE, {"gyogwamokmyeong"}),
                       <<"read_csv", "columns", "to_numeric", "groupby", "store",
                         "process_data">>, TRUE, {}, {})
               /\ held' = DataFrame(courses)
               /\ \E sorted \in SortedDescending(Filter(courses, size_ranges[k])) :
                     size_ranges' = ProcessUpTo(size_ranges, courses, k, sorted)
               /\ UNCHANGED <<courses, processed>>
    /\ UNCHANGED <<summary_stats, siteVars>>

\* the files given to the later load_data calls on one SurveyDataAnalyzer: one the
\* parser rejects, one without survey column, one without seolmun1, and a valid one
LaterUploads ==
    { BadFile,
      File(TRUE, TRUE, required_cols, TRUE),
      File(TRUE, TRUE, required_cols \cup {"seolmun2"}, TRUE),
      File(TRUE, TRUE, required_cols \cup {"seolmun1"}, TRUE) }

\* the file argument of the next load_data call on the same SurveyDataAnalyzer, with
\* the per-course table its records give
UploadFile(f, t) ==
    /\ prog = "app"
    /\ pc = "done"
    /\ calls < MaxLoads
    /\ f.year_ok = f.parses
    /\ t # <<>> => Aggregates(f)
    /\ file' = f
    /\ courses' = t
    /\ pc' = "start"
    /\ result' = NoOutcome
    /\ trace' = <<>>
    /\ UNCHANGED <<prog, stored, written, dirs, size_ranges, processed, mapperVars,
                   classVars, statsVars, objectVars, siteVars>>

\* SurveyDataAnalyzer.load_data of survey_analysis_app-v1-no-error.py
V1LoadData ==
    /\ prog = "v1"
    /\ pc = "start"
    /\ LET q8 == {"gyogwakodeu", "seolmun8"}
       IN IF ~file.parses
          THEN Step("done", Outcome("False", "ParserError", FALSE, {}),
                    <<"read_csv">>, FALSE, {}, {})
          ELSE IF ~(q8 \subseteq file.cols)
          THEN Step("done", Outcome("False", "KeyError", FALSE, q8 \ file.cols),
                    <<"read_csv", "select_q8">>, FALSE, {}, {})
          ELSE Step("done", Outcome("True", "none", FALSE, {}),
                    <<"read_csv", "select_q8", "write", "to_english", "to_numeric",
                      "store">>, TRUE, {"q8_responses.csv"}, {})
    /\ UNCHANGED <<sizeVars, objectVars, siteVars>>

\* set(self.mapper.to_english(df.columns))
EnglishColumns(d, cols) == {Get(d, col, col) : col \in cols}

\* self.required_columns of "survey_analysis_app copy 3.py"
required_columns == {"year", "semester", "campus", "college", "course_name"}

\* self.survey_questions of "survey_analysis_app copy 3.py"
survey_questions == {"q1", "q2", "q3", "q4", "q5", "q6", "q7"}

\* the columns that load_data of "survey_analysis_app copy 3.py" keeps
columns_to_keep ==
    {"nyeondo", "hakgi", "kaempeoseu", "gaeseoldangwadaehak", "gyogwamokmyeong",
     "seolmun1", "seolmun2", "seolmun3", "seolmun4", "seolmun5", "seolmun6", "seolmun7"}

\* SurveyDataAnalyzer.load_data of "survey_analysis_app copy 3.py", with its call of
\* validate_dataframe, which logs the missing columns and returns False
Copy3LoadData ==
    /\ prog = "copy3"
    /\ pc = "start"
    /\ LET kept == file.cols \cap columns_to_keep
           english_columns == EnglishColumns(KrToEnLiteral("copy3"), kept)
           missing_required == required_columns \ english_columns
           missing_questions == survey_questions \ english_columns
       IN IF ~file.parses
          THEN Step("done", Outcome("False", "ParserError", FALSE, {}),
                    <<"read_csv">>, FALSE, {}, {})
          ELSE IF missing_required # {}
          THEN Step("done", Outcome("False", "none", FALSE, missing_required),
                    <<"read_csv", "columns">>, FALSE, {}, {})
          ELSE IF missing_questions # {}
          THEN Step("done", Outcome("False", "none", FALSE, missing_questions),
                    <<"read_csv", "columns">>, FALSE, {}, {})
          ELSE IF ~file.year_ok
          THEN Step("done", Outcome("False", "ValueError", FALSE, {}),
                    <<"read_csv", "columns", "to_english", "to_numeric", "astype">>,
                    FALSE, {}, {})
          ELSE Step("done", Outcome("True", "none", FALSE, {}),
                    <<"read_csv", "columns", "to_english", "to_numeric", "astype",
                      "store">>, TRUE, {}, {})
    /\ UNCHANGED <<sizeVars, objectVars, siteVars>>

\* main of calculate_metrics.py: os.makedirs of the output directory
MetricsMakedirs ==
    /\ prog = "metrics"
    /\ pc = "start"
    /\ Step("init", NoOutcome, <<"makedirs">>, FALSE, {}, {"computed_metrics"})
    /\ UNCHANGED <<sizeVars, objectVars, siteVars>>

\* self.required_columns of MetricsCalculator
MetricsRequired ==
    survey_cols \cup {"College", "Campus", "GroupCode", "CourseCode", "CourseName"}

\* MetricsCalculator.__init__; what it raises ends main
MetricsCalculatorInit ==
    /\ prog = "metrics"
    /\ pc = "init"
    /\ LET missing_cols == MetricsRequired \ file.cols
       IN IF ~Exists(file)
          THEN Step("raised", Outcome("none", "FileNotFoundError", TRUE, {}),
                    <<"exists">>, FALSE, {}, {})
          ELSE IF ~file.parses
          THEN Step("raised", Outcome("none", "ParserError", TRUE, {}),
                    <<"exists", "read_csv">>, FALSE, {}, {})
          ELSE IF missing_cols # {}
          THEN Step("raised", Outcome("none", "ValueError", TRUE, missing_cols),
                    <<"exists", "read_csv", "columns">>, FALSE, {}, {})
          ELSE Step("calc", NoOutcome,
                    <<"exists", "read_csv", "columns", "to_numeric">>, TRUE, {}, {})
    /\ UNCHANGED <<sizeVars, objectVars, siteVars>>

\* MetricsCalculator.calculate_and_save_all_metrics
CalculateAndSaveAllMetrics ==
    /\ prog = "metrics"
    /\ pc = "calc"
    /\ Step("done", NoOutcome, <<"metrics", "classify", "write">>, TRUE,
            {"computed_metrics/all_metrics.json"}, {})
    /\ UNCHANGED <<sizeVars, objectVars, siteVars>>

\* CourseEvalProcessor.load_data: read_csv inside try, any exception gives False;
\* main goes on only when it returned True
ProcessorLoadData ==
    /\ prog = "processor"
    /\ pc = "start"
    /\ IF ~Exists(file)
       THEN Step("done", Outcome("False", "FileNotFoundError", FALSE, {}),
                 <<"open">>, FALSE, {}, {})
       ELSE IF ~file.parses
       THEN Step("done", Outcome("False", "ParserError", FALSE, {}),
                 <<"open", "read_csv">>, FALSE, {}, {})
       ELSE Step("clean", Outcome("True", "none", FALSE, {}),
                 <<"open", "read_csv", "store">>, TRUE, {}, {})
    /\ UNCHANGED <<sizeVars, objectVars, siteVars>>

\* CourseEvalProcessor.clean_data: to_numeric on Survey1..Survey7, then the computed
\* columns; a missing survey column is a KeyError that ends main
CleanData ==
    /\ prog = "processor"
    /\ pc = "clean"
    /\ IF ~(survey_cols \subseteq file.cols)
       THEN Step("raised", Outcome("none", "KeyError", TRUE, survey_cols \ file.cols),
                 <<"clean">>, TRUE, {}, {})
       ELSE Step("statistics", Outcome("True", "none", FALSE, {}),
                 <<"clean", "to_numeric", "metrics">>, TRUE, {}, {})
    /\ UNCHANGED <<sizeVars, objectVars, siteVars>>

\* CourseEvalProcessor.compute_statistics
ComputeStatistics ==
    /\ prog = "processor"
    /\ pc = "statistics"
    /\ LET needed == {"CourseCode", "ProfessorID", "College"}
       IN IF ~(needed \subseteq file.cols)
          THEN Step("raised", Outcome("none", "KeyError", TRUE, needed \ file.cols),
                    <<"statistics">>, TRUE, {}, {})
          ELSE Step("save", Outcome("True", "none", FALSE, {}),
                    <<"statistics", "metrics">>, TRUE, {}, {})
    /\ UNCHANGED <<sizeVars, objectVars, siteVars>>

\* the rest of main: generate_summary_report, then save_processed_data
SaveProcessedData ==
    /\ prog = "processor"
    /\ pc = "save"
    /\ Step("done", Outcome("True", "none", FALSE, {}), <<"report", "write">>, TRUE,
            {"anon-course-eval-24_1Data-cp_processed.csv"}, {})
    /\ UNCHANGED <<sizeVars, objectVars, siteVars>>

\* load_metrics of generate_html_pages.py; what it raises ends main
LoadMetrics ==
    /\ prog = "html"
    /\ pc = "start"
    /\ IF ~Exists(file)
       THEN Step("raised", Outcome("none", "FileNotFoundError", TRUE, {}),
                 <<"exists">>, FALSE, {}, {})
       ELSE IF ~file.parses
       THEN Step("raised", Outcome("none", "JSONDecodeError", TRUE, {}),
                 <<"exists", "json_load">>, FALSE, {}, {})
       ELSE Step("pages", NoOutcome, <<"exists", "json_load">>, TRUE, {}, {})
    /\ handles' = IF Exists(file) THEN Closed(Opened(handles, "json_file"), "json_file")
                  ELSE handles
    /\ UNCHANGED <<sizeVars, objectVars, preview, pages>>

\* the rest of generate_html_pages: os.makedirs, then create_summary_page, whose
\* template subscripts metrics[evaluation], metrics[additional], metrics[demographics]
CreateSummaryPage ==
    /\ prog = "html"
    /\ pc = "pages"
    /\ LET subscripted == {"evaluation", "additional", "demographics"}
       IN IF ~(subscripted \subseteq file.cols)
          THEN Step("raised", Outcome("none", "UndefinedError", TRUE, {}),
                    <<"makedirs", "render">>, TRUE, {}, {"html_pages"})
          ELSE Step("done", NoOutcome, <<"makedirs", "render", "write">>, TRUE,
                    {"html_pages/summary.html"}, {"html_pages"})
    /\ UNCHANGED <<sizeVars, objectVars, siteVars>>

\* main going on after load_data whatever it returned
ContinueAlways(ok, next) == next

\* "if analyzer.load_data():" in main: the stages follow only when it returned True
Continue(ok, next) == IF ok THEN next ELSE "done"

\* SurveyStatisticsAnalyzer.load_data as main of advanced_survey_analyzer.py calls it:
\* read_csv, to_numeric and the SurveyCombined column (combine) inside try, any
\* exception gives False; self.data is assigned as soon as read_csv has returned
AdvancedLoadData ==
    /\ prog = "advanced"
    /\ pc = "start"
    /\ IF ~Exists(file)
       THEN Step(Continue(FALSE, "distribution"),
                 Outcome("False", "FileNotFoundError", FALSE, {}),
                 <<"open">>, FALSE, {}, {})
       ELSE IF ~file.parses
       THEN Step(Continue(FALSE, "distribution"),
                 Outcome("False", "ParserError", FALSE, {}),
                 <<"open", "read_csv">>, FALSE, {}, {})
       ELSE IF ~(survey_cols \subseteq file.cols)
       THEN Step(Continue(FALSE, "distribution"),
                 Outcome("False", "KeyError", FALSE, survey_cols \ file.cols),
                 <<"open", "read_csv", "store", "to_numeric">>, TRUE, {}, {})
       ELSE Step(Continue(TRUE, "distribution"), Outcome("True", "none", FALSE, {}),
                 <<"open", "read_csv", "store", "to_numeric", "combine">>, TRUE, {}, {})
    /\ UNCHANGED <<sizeVars, objectVars, siteVars>>

\* calculate_distribution_statistics in main of advanced_survey_analyzer.py: whether it
\* raises depends on the cells of the file (a column without values: IndexError) and
\* on the SciPy installed (TypeError); an exception ends main
AdvancedDistribution ==
    /\ prog = "advanced"
    /\ pc = "distribution"
    /\ \/ Step("comparative", Outcome("none", "none", FALSE, {}),
               <<"statistics">>, stored, {}, {})
       \/ \E err \in {"IndexError", "TypeError"} :
             Step("raised", Outcome("none", err, TRUE, {}),
                  <<"statistics">>, stored, {}, {})
    /\ UNCHANGED <<sizeVars, objectVars, siteVars>>

\* calculate_comparative_statistics in main of advanced_survey_analyzer.py: it raises
\* KeyError for every input, so the stages that follow it in main (reliability,
\* response patterns, tests, factor analysis, save, summary) are never reached
AdvancedComparative ==
    /\ prog = "advanced"
    /\ pc = "comparative"
    /\ Step("raised", Outcome("none", "KeyError", TRUE, {"<lambda>_1"}),
            <<"statistics">>, stored, {}, {})
    /\ UNCHANGED <<sizeVars, objectVars, siteVars>>

\* analyze_class_sizes(input_file, output_file), all of it inside try: any exception
\* is printed and gives False.  to_csv comes before the summary, and with no class the
\* percentage of the summary divides by total_classes = 0.  to_csv itself may fail
\* (OSError), whatever the input.
AnalyzeClassSizes ==
    /\ prog = "class_size"
    /\ pc = "start"
    /\ IF ~Exists(file)
       THEN Step("done", Outcome("False", "FileNotFoundError", FALSE, {}),
                 <<"open">>, FALSE, {}, {})
       ELSE IF ~file.parses
       THEN Step("done", Outcome("False", "ParserError", FALSE, {}),
                 <<"open", "read_csv">>, FALSE, {}, {})
       ELSE IF "GroupCode" \notin file.cols
       THEN Step("done", Outcome("False", "KeyError", FALSE, {"GroupCode"}),
                 <<"open", "read_csv", "groupby">>, FALSE, {}, {})
       ELSE \/ Step("done", Outcome("False", "OSError", FALSE, {}),
                    <<"open", "read_csv", "groupby", "classify">>, FALSE, {}, {})
            \/ IF students = 0
               THEN Step("done", Outcome("False", "ZeroDivisionError", FALSE, {}),
                         <<"open", "read_csv", "groupby", "classify", "write", "report">>,
                         FALSE, {"class_sizes.csv"}, {})
               ELSE Step("done", Outcome("True", "none", FALSE, {}),
                         <<"open", "read_csv", "groupby", "classify", "write", "report">>,
                         FALSE, {"class_sizes.csv"}, {})
    /\ UNCHANGED <<sizeVars, objectVars, siteVars>>

LoadNext ==
    \/ AppLoadData
    \/ \E f \in LaterUploads, t \in AppTables : UploadFile(f, t)
    \/ V1LoadData
    \/ Copy3LoadData
    \/ MetricsMakedirs
    \/ MetricsCalculatorInit
    \/ CalculateAndSaveAllMetrics
    \/ ProcessorLoadData
    \/ CleanData
    \/ ComputeStatistics
    \/ SaveProcessedData
    \/ AdvancedLoadData
    \/ AdvancedDistribution
    \/ AdvancedComparative
    \/ AnalyzeClassSizes
    \/ LoadMetrics
    \/ CreateSummaryPage

SpecLoad == LoadInit /\ [][LoadNext]_vars

(***************************************************************************)
(* The scripts that go through a list of pages: update_pages.py over its   *)
(* HTML files, excel_to_csv_converter.py over the sheets of a workbook,    *)
(* and generate_html_pages.py (LoadMetrics, CreateSummaryPage above).      *)
(***************************************************************************)
\* PageUpdater.html_files, without the directory they are joined to
html_files ==
    <<"index.html", "demographics.html", "performance.html", "evaluation.html",
      "findings.html">>

\* what an HTML file of the list may be: not there, not decodable as UTF-8, a document
\* without head element, a document with one
PageStates == {"missing", "undecodable", "no_head", "ok"}

\* what a sheet of the workbook may be: readable, or one read_excel or to_csv fails on
SheetStates == {"ok", "bad"}

\* the largest number of sheets of a workbook
MaxSheets == 2

\* the five CSV files of PageUpdater.data_files taken together, and the workbook given
\* to convert_excel_to_csv: not there, not parseable, or good
PlainFiles == {NoFile, BadFile, File(TRUE, TRUE, {}, TRUE)}

SiteInit ==
    /\ prog \in {"update_pages", "excel_to_csv", "html"}
    /\ file \in IF prog = "html" THEN JsonFiles ELSE PlainFiles
    /\ preview \in IF prog = "update_pages" THEN BOOLEAN ELSE {FALSE}
    /\ pages \in CASE prog = "update_pages" -> [DOMAIN html_files -> PageStates]
                   [] prog = "excel_to_csv" ->
                        UNION {[1..n -> SheetStates] : n \in 1..MaxSheets}
                   [] OTHER -> {<<>>}
    /\ handles = {}
    /\ pc = "start"
    /\ result = NoOutcome
    /\ trace = <<>>
    /\ stored = FALSE
    /\ written = {}
    /\ dirs = {}
    /\ held = DataNone
    /\ calls = 0
    /\ summary_stats = {}
    /\ MapperIdle
    /\ SizeIdle
    /\ ClassIdle
    /\ StatsIdle

\* main of update_pages.py up to its loop: parse_args, PageUpdater(), load_data, which
\* ends the run with sys.exit(1) when a data file cannot be read; read_csv closes the
\* file it opened.  args.preview is not read again after parse_args.
UpdaterLoadData ==
    /\ prog = "update_pages"
    /\ pc = "start"
    /\ IF ~Exists(file)
       THEN Step("exited", Outcome("none", "SystemExit", TRUE, {}),
                 <<"open">>, FALSE, {}, {})
       ELSE IF ~file.parses
       THEN Step("exited", Outcome("none", "SystemExit", TRUE, {}),
                 <<"open", "read_csv">>, FALSE, {}, {})
       ELSE Step("update", NoOutcome, <<"open", "read_csv">>, TRUE, {}, {})
    /\ handles' = IF Exists(file) THEN Closed(Opened(handles, "data_file"), "data_file")
                  ELSE handles
    /\ UNCHANGED <<sizeVars, objectVars, preview, pages>>

\* PageUpdater.update_html_file on the next file of html_files, called from the loop
\* of main: the file is read inside a with block, head is extended, and the file is
\* opened for writing inside a second with block; any exception is logged.  The
\* filename carries the directory, so none of the update_..._content methods is called.
UpdateHtmlFile ==
    /\ prog = "update_pages"
    /\ pc = "update"
    /\ LET page == calls + 1
           filename == html_files[page]
           next == IF page = Len(html_files) THEN "done" ELSE "update"
       IN CASE pages[page] = "missing" ->
                 /\ Step(next, Outcome("None", "FileNotFoundError", FALSE, {}),
                         <<"open">>, TRUE, {}, {})
                 /\ handles' = handles
            [] pages[page] = "undecodable" ->
                 /\ Step(next, Outcome("None", "UnicodeDecodeError", FALSE, {}),
                         <<"open", "read">>, TRUE, {}, {})
                 /\ handles' = Closed(Opened(handles, filename), filename)
            [] pages[page] = "no_head" ->
                 /\ Step(next, Outcome("None", "AttributeError", FALSE, {}),
                         <<"open", "read">>, TRUE, {}, {})
                 /\ handles' = Closed(Opened(handles, filename), filename)
            [] OTHER ->
                 /\ Step(next, Outcome("None", "none", FALSE, {}),
                         <<"open", "read", "open", "write">>, TRUE, {filename}, {})
                 /\ handles' = Closed(Opened(Closed(Opened(handles, filename), filename),
                                             filename), filename)
    /\ calls' = calls + 1
    /\ UNCHANGED <<sizeVars, held, summary_stats, preview, pages>>

\* the CSV file written for sheet k
CsvOf(k) == IF k = 1 THEN "sheet1.csv" ELSE IF k = 2 THEN "sheet2.csv" ELSE "sheet3.csv"

\* convert_excel_to_csv: pd.ExcelFile(excel_file) opens the workbook and is never
\* closed; its constructor closes what it opened when the workbook cannot be parsed.
\* read_excel and to_csv in the loop open and close their own handles.  An exception
\* is re-raised while the frame still refers to the ExcelFile, so its handle is open;
\* after a normal return the handle is closed when the object is reclaimed, which may
\* or may not have happened.
ConvertExcelToCsv ==
    /\ prog = "excel_to_csv"
    /\ pc = "start"
    /\ LET bad == {k \in DOMAIN pages : pages[k] = "bad"}
           first == CHOOSE k \in bad : \A l \in bad : k <= l
       IN IF ~Exists(file)
          THEN /\ Step("raised", Outcome("none", "FileNotFoundError", TRUE, {}),
                       <<"open">>, FALSE, {}, {})
               /\ handles' = handles
          ELSE IF ~file.parses
          THEN /\ Step("raised", Outcome("none", "ValueError", TRUE, {}),
                       <<"open", "read_excel">>, FALSE, {}, {})
               /\ handles' = Closed(Opened(handles, "excel_file"), "excel_file")
          ELSE IF bad # {}
          THEN /\ Step("raised", Outcome("none", "ValueError", TRUE, {}),
                       <<"open", "read_excel", "makedirs", "write">>, FALSE,
                       {CsvOf(k) : k \in 1..(first - 1)}, {"output_dir"})
               /\ handles' = Opened(handles, "excel_file")
          ELSE /\ Step("done", Outcome("None", "none", FALSE, {}),
                       <<"open", "read_excel", "makedirs", "write">>, FALSE,
                       {CsvOf(k) : k \in DOMAIN pages}, {"output_dir"})
               /\ \/ handles' = Opened(handles, "excel_file")
                  \/ handles' = Closed(Opened(handles, "excel_file"), "excel_file")
    /\ UNCHANGED <<sizeVars, objectVars, preview, pages>>

SiteNext ==
    \/ UpdaterLoadData
    \/ UpdateHtmlFile
    \/ ConvertExcelToCsv
    \/ LoadMetrics
    \/ CreateSummaryPage

SpecSite == SiteInit /\ [][SiteNext]_vars

(***************************************************************************)
(* The analyzers.  A record of the input file is [College, Campus,         *)
(* CourseName, items]: items are the cells of Survey1..Survey7 as read, a  *)
(* string each.  After the load the items are numbers or NaN, and the row  *)
(* carries combined, the row mean of its items in units of 1/Scale (the    *)
(* columns SurveyCombined, AvgSurveyScore), or NaN.  Means are exact       *)
(* rationals; a statistic that the code rounds is held in thousandths or   *)
(* hundredths.  The file exists and has the columns the analyzer reads:    *)
(* what happens otherwise is the subject of the loaders above.             *)
(***************************************************************************)
\* np.nan, the value that to_numeric(errors='coerce') gives a cell it cannot convert
NaN == -9

\* the unit of a row mean is 1/840: every mean of 1..8 integers is a multiple of it
Scale == 840

\* pd.to_numeric, with a cell that cannot be converted becoming 0
ToNumericZero(cell) ==
    CASE cell = "3" -> 3 [] cell = "4" -> 4 [] cell = "5" -> 5 [] OTHER -> 0

\* pd.to_numeric(cell, errors='coerce')
ToNumeric(cell) ==
    CASE cell = "3" -> 3 [] cell = "4" -> 4 [] cell = "5" -> 5 [] OTHER -> NaN

\* str.strip, for the strings of the model
Strip(s) == IF s = " X" THEN "X" ELSE s

\* the items of a row that are not missing
Observed(items) == {i \in DOMAIN items : items[i] # NaN}

RECURSIVE SumOver(_, _)
SumOver(f, S) ==
    IF S = {} THEN 0
    ELSE LET x == CHOOSE y \in S : TRUE IN f[x] + SumOver(f, S \ {x})

\* df[survey_cols].mean(axis=1) of one row, with a row of NaN only counting as 0
RowMeanZero(items) ==
    IF Observed(items) = {} THEN 0
    ELSE (Scale * SumOver(items, Observed(items))) \div Cardinality(Observed(items))

\* df[survey_cols].mean(axis=1) of one row: the mean of the items that are not NaN,
\* NaN when all are
RowMean(items) ==
    IF Observed(items) = {} THEN NaN
    ELSE (Scale * SumOver(items, Observed(items))) \div Cardinality(Observed(items))

\* the item cells of the records examined: two records with answers (one has an empty
\* cell), a record without any answer, and one with a cell that is not a number, whose
\* mean, 25/6, has no finite decimal expansion
ItemVectors ==
    { <<"4", "5", "", "4", "5", "4", "5">>,
      <<"3", "3", "3", "3", "3", "3", "3">>,
      <<"", "", "", "", "", "", "">>,
      <<"abc", "5", "4", "4", "4", "4", "4">> }

\* the values of the grouping columns; "" is a missing value (NaN after read_csv)
Colleges == {"A", "B", ""}

CourseNames == {"X", "Y", " X"}

RawRecords ==
    [College : Colleges, Campus : {"S"}, CourseName : CourseNames, items : ItemVectors]

MaxRecords == 2

RecordTables == UNION {[1..n -> RawRecords] : n \in 0..MaxRecords}

\* the columns of the input file
InputColumns ==
    {"College", "Campus", "CourseName"} \cup survey_cols

\* the for loop over survey_cols with to_numeric: the items of every row are coerced,
\* the other columns are carried over
CoerceRows(rows) ==
    [r \in DOMAIN rows |->
        [College |-> rows[r].College, Campus |-> rows[r].Campus,
         CourseName |-> rows[r].CourseName,
         items |-> [i \in DOMAIN rows[r].items |-> ToNumeric(rows[r].items[i])],
         combined |-> NaN]]

\* the column of row means added to the frame
WithRowMeans(rows) ==
    [r \in DOMAIN rows |-> [rows[r] EXCEPT !.combined = RowMean(rows[r].items)]]

\* clean_data: .str.strip() on every column of strings
StripRows(rows) ==
    [r \in DOMAIN rows |->
        [rows[r] EXCEPT !.College = Strip(@), !.Campus = Strip(@),
                        !.CourseName = Strip(@)]]

Frame(rows, cols) == [loaded |-> TRUE, rows |-> rows, cols |-> cols]

\* the end of a call of an analyzer
Stage(p, f) ==
    /\ phase' = p
    /\ failure' = f
    /\ UNCHANGED <<tool, raw, request, mapperVars, sizeVars, classVars, loadVars, objectVars, siteVars>>

\* SurveyScoreAnalyzer.load_data
ScoreLoadData ==
    /\ tool = "score"
    /\ phase = "start"
    /\ data' = Frame(CoerceRows(raw), InputColumns)
    /\ Stage("loaded", "none")
    /\ UNCHANGED <<stats, ranking>>

\* SurveyStatisticsAnalyzer.load_data, which AdvancedSurveyAnalyzer inherits
StatisticsLoadData ==
    /\ tool = "statistics"
    /\ phase = "start"
    /\ data' = Frame(WithRowMeans(CoerceRows(raw)), InputColumns \cup {"SurveyCombined"})
    /\ Stage("loaded", "none")
    /\ UNCHANGED <<stats, ranking>>

\* CourseEvalProcessor.load_data followed by clean_data
ProcessorCleanData ==
    /\ tool = "processor"
    /\ phase = "start"
    /\ data' = Frame(WithRowMeans(CoerceRows(StripRows(raw))),
                     InputColumns \cup {"AvgSurveyScore", "ResponseCompleteness"})
    /\ Stage("loaded", "none")
    /\ UNCHANGED <<stats, ranking>>

\* MetricsCalculator.__init__
MetricsLoadData ==
    /\ tool = "metrics"
    /\ phase = "start"
    /\ data' = Frame(CoerceRows(raw), InputColumns)
    /\ Stage("loaded", "none")
    /\ UNCHANGED <<stats, ranking>>

\* the score fields of the analyzers: the seven survey columns and the row mean
ScoreFields == survey_cols \cup {"SurveyCombined"}

\* the place of a survey column among the items of a row; the Streamlit applications
\* name the columns q1..q7
ItemIndex(field) ==
    CASE field \in {"Survey1", "q1"} -> 1 [] field \in {"Survey2", "q2"} -> 2
      [] field \in {"Survey3", "q3"} -> 3 [] field \in {"Survey4", "q4"} -> 4
      [] field \in {"Survey5", "q5"} -> 5 [] field \in {"Survey6", "q6"} -> 6
      [] field \in {"Survey7", "q7"} -> 7

\* df[field] of one row
Value(row, field) ==
    IF field \in survey_cols \cup survey_questions
    THEN row.items[ItemIndex(field)]
    ELSE row.combined

\* the unit of the values of a field: 1 for an item, 1/Scale for a row mean
Unit(field) == IF field \in survey_cols \cup survey_questions THEN 1 ELSE Scale

\* df[by] of one row; by = "all" stands for the frame taken as a whole
Key(row, by) ==
    CASE by \in {"College", "college"} -> row.College
      [] by \in {"Campus", "campus"} -> row.Campus
      [] by \in {"CourseName", "course_name", "course_id"} -> row.CourseName
      [] OTHER -> "all"

\* the groups of df.groupby(by): the default dropna=True leaves out the rows whose key
\* is missing
GroupKeys(rows, by) == {Key(rows[r], by) : r \in DOMAIN rows} \ {""}

\* the rows of a group that have a value for the field
Valid(rows, by, group, field) ==
    {r \in DOMAIN rows : Key(rows[r], by) = group /\ Value(rows[r], field) # NaN}

\* the sum of the field over these rows, in the unit of the field
FieldSum(rows, S, field) == SumOver([r \in DOMAIN rows |-> Value(rows[r], field)], S)

\* round(a / b) to the nearest integer, halves to the even one, for a >= 0 and b > 0
RoundDiv(a, b) ==
    LET q == a \div b
        r == a % b
    IN IF 2 * r < b THEN q
       ELSE IF 2 * r > b THEN q + 1
       ELSE IF q % 2 = 0 THEN q ELSE q + 1

\* One row of statistics: the group, the field, its count, and its mean as the
\* fraction mean / den (NaN when there is no value).  After .round(3) den is 1000 and
\* after .round(2) it is 100; a mean that is not rounded has den = count * unit.  std
\* tells whether the standard deviation is a number: it has ddof = 1.
Statistic(by, group, field, count, mean, den) ==
    [by |-> by, group |-> group, field |-> field, count |-> count,
     mean |-> mean, den |-> den, std |-> count >= 2]

\* agg(['count', 'mean', 'std']) without the .round that follows it
AggExact(rows, by, group, field, per) ==
    LET S == Valid(rows, by, group, field)
        n == Cardinality(S)
    IN Statistic(by, group, field, n,
                 IF n = 0 THEN NaN ELSE FieldSum(rows, S, field),
                 IF n = 0 THEN 1 ELSE n * Unit(field))

\* agg(['count', 'mean', 'std']).round(decimals) on one group and field; per is 10 to
\* the power of decimals
Agg(rows, by, group, field, per) ==
    LET S == Valid(rows, by, group, field)
        n == Cardinality(S)
    IN Statistic(by, group, field, n,
                 IF n = 0 THEN NaN
                 ELSE RoundDiv(per * FieldSum(rows, S, field), n * Unit(field)),
                 per)

\* df.groupby(by)[field].agg([...]).round(decimals), one row for each group
GroupStats(rows, by, field, per) ==
    {Agg(rows, by, group, field, per) : group \in GroupKeys(rows, by)}

\* SurveyScoreAnalyzer.calculate_survey_averages
CalculateSurveyAverages ==
    /\ tool = "score"
    /\ phase = "loaded"
    /\ LET rows == WithRowMeans(data.rows)
       IN /\ data' = Frame(rows, data.cols \cup {"SurveyCombined"})
          /\ stats' = UNION {GroupStats(rows, by, field, 1000) :
                                by \in {"CourseName", "College", "Campus"},
                                field \in ScoreFields}
    /\ Stage("averaged", "none")
    /\ UNCHANGED ranking

\* the columns of the frame, in the order calculate_distribution_statistics takes them
analysis_cols ==
    <<"Survey1", "Survey2", "Survey3", "Survey4", "Survey5", "Survey6", "Survey7",
      "SurveyCombined">>

\* the statistics of one column taken over the whole frame; none of them is rounded
Distribution(rows, field) ==
    LET S == Valid(rows, "all", "all", field)
    IN Statistic("all", "all", field, Cardinality(S), FieldSum(rows, S, field),
                 Cardinality(S) * Unit(field))

\* the first column of analysis_cols without any value, 0 when every column has one:
\* for such a column mode() is empty and .iloc[0] raises IndexError
FirstEmptyColumn(rows) ==
    IF \A c \in DOMAIN analysis_cols : Valid(rows, "all", "all", analysis_cols[c]) # {}
    THEN 0
    ELSE CHOOSE c \in DOMAIN analysis_cols :
            /\ Valid(rows, "all", "all", analysis_cols[c]) = {}
            /\ \A b \in 1..(c - 1) : Valid(rows, "all", "all", analysis_cols[b]) # {}

\* SurveyStatisticsAnalyzer.calculate_distribution_statistics.  The columns before the
\* first one without values get their entry of self.results; for that column the dict
\* display raises IndexError.  stats.t.interval is called with alpha=, which SciPy
\* accepted up to 1.10 and rejects with TypeError from 1.11 on: either may be installed.
CalculateDistributionStatistics ==
    /\ tool = "statistics"
    /\ phase = "loaded"
    /\ LET c == FirstEmptyColumn(data.rows)
       IN \/ /\ c = 0
             /\ stats' = stats \cup {Distribution(data.rows, analysis_cols[b]) :
                                       b \in DOMAIN analysis_cols}
             /\ Stage("distribution", "none")
          \/ /\ c = 0
             /\ stats' = stats
             /\ Stage("raised", "TypeError")
          \/ /\ c = 1
             /\ stats' = stats
             /\ Stage("raised", "IndexError")
          \/ /\ c > 1
             /\ stats' = stats \cup {Distribution(data.rows, analysis_cols[b]) :
                                       b \in 1..(c - 1)}
             /\ Stage("raised", "IndexError")
          \/ /\ c > 1
             /\ stats' = stats
             /\ Stage("raised", "TypeError")
    /\ UNCHANGED <<data, ranking>>

\* SurveyStatisticsAnalyzer.calculate_comparative_statistics.  agg names the columns of
\* its two lambdas <lambda_0> and <lambda_1>, so group_stats['<lambda>_1'] raises
\* KeyError in the first pass of the loops, before anything is put in self.results.
CalculateComparativeStatistics ==
    /\ tool = "statistics"
    /\ phase = "distribution"
    /\ Stage("raised", "KeyError")
    /\ UNCHANGED <<data, stats, ranking>>

\* CourseEvalProcessor.compute_statistics: total_records, the survey means over the
\* whole frame, and college_stats, which is rounded to two decimals
ComputeCollegeStatistics ==
    /\ tool = "processor"
    /\ phase = "loaded"
    /\ stats' = {Statistic("all", "all", "total_records", Len(data.rows), NaN, 1)}
                   \cup {AggExact(data.rows, "all", "all", field, 1) : field \in survey_cols}
                   \cup GroupStats(data.rows, "College", "AvgSurveyScore", 100)
    /\ Stage("computed", "none")
    /\ UNCHANGED <<data, ranking>>

\* whether statistic a ranks at least as high as b by mean; both means are numbers
AtLeast(a, b) == a.mean * b.den >= b.mean * a.den

SameMean(a, b) == a.mean * b.den = b.mean * a.den

\* the sequences that list every element of S once
Orderings(S) ==
    {q \in [1..Cardinality(S) -> S] : \A i, j \in DOMAIN q : q[i] = q[j] => i = j}

\* the labels of the groups in the order groupby puts them, that of their strings
SortedLabels == <<" X", "A", "B", "S", "X", "Y", "all">>

Before(a, b) ==
    \E i, j \in DOMAIN SortedLabels : i < j /\ SortedLabels[i] = a /\ SortedLabels[j] = b

\* sort_values(ascending=False), with rows of equal mean left in the order of their
\* group labels, which is the order groupby gives them
SortedStable(S) ==
    {q \in Orderings(S) :
        \A i, j \in DOMAIN q : i < j =>
            \/ q[j].mean = NaN /\ q[i].mean # NaN
            \/ q[i].mean = NaN /\ q[j].mean = NaN
            \/ /\ q[i].mean # NaN
               /\ q[j].mean # NaN
               /\ AtLeast(q[i], q[j])
               /\ SameMean(q[i], q[j]) => Before(q[i].group, q[j].group)}

\* sort_values(ascending=False) on the means of the groups: NaN goes last
\* (na_position='last'), and the default kind, quicksort, is not stable, so groups of
\* equal mean may come out in any order
SortedByMean(S) ==
    {q \in Orderings(S) :
        \A i, j \in DOMAIN q : i < j =>
            \/ q[j].mean = NaN
            \/ q[i].mean # NaN /\ q[j].mean # NaN /\ AtLeast(q[i], q[j])}

\* .round(decimals) on the means of a list; per is 10 to the power of decimals
RoundMeans(q, per) ==
    [i \in DOMAIN q |->
        IF q[i].mean = NaN THEN q[i]
        ELSE [q[i] EXCEPT !.mean = RoundDiv(per * q[i].mean, q[i].den), !.den = per]]

\* the head(10) of calculate_additional_metrics
Top10 == 10

\* the nlargest(5, 'mean') of print_summary, the n = 5 of get_top_courses
Top5 == 5

\* the means of the groups of a column before any rounding
GroupMeans(rows, by, field) ==
    {AggExact(rows, by, group, field, 1) : group \in GroupKeys(rows, by)}

\* MetricsCalculator.calculate_additional_metrics: the entry of top_10_colleges for
\* one survey column, groupby('College')[col].mean().sort_values(ascending=False)
\* .head(10).round(2).to_dict(); top_10_courses is built the same way on CourseCode
TopColleges(field) ==
    /\ tool = "metrics"
    /\ phase = "loaded"
    /\ \E q \in SortedByMean(GroupMeans(data.rows, "College", field)) :
          ranking' = RoundMeans(HeadRows(q, Top10), 100)
    /\ Stage("ranked", "none")
    /\ UNCHANGED <<data, stats>>

\* rows.nlargest(n, 'mean') with the default keep='first': the rows of largest mean,
\* rows of equal mean in the order they have in the frame; a row whose mean is NaN
\* comes after all others and is returned when there are fewer than n other rows
NLargest(S, n) == {HeadRows(q, n) : q \in SortedStable(S)}

\* SurveyScoreAnalyzer.print_summary: the top colleges by combined score
PrintSummary ==
    /\ tool = "score"
    /\ phase = "averaged"
    /\ ranking' \in NLargest({s \in stats : s.by = "College" /\ s.field = "SurveyCombined"},
                             Top5)
    /\ Stage("done", "none")
    /\ UNCHANGED <<data, stats>>

\* what each analyzer reads: records of the input file
StatsTools == {"score", "statistics", "processor", "metrics"}

StatsInit ==
    /\ tool \in StatsTools
    /\ raw \in RecordTables
    /\ data = NoData
    /\ stats = {}
    /\ ranking = <<>>
    /\ phase = "start"
    /\ failure = "none"
    /\ request = ""
    /\ MapperIdle
    /\ SizeIdle
    /\ ClassIdle
    /\ LoadIdle
    /\ ObjectIdle
    /\ SiteIdle

StatsNext ==
    \/ ScoreLoadData
    \/ StatisticsLoadData
    \/ ProcessorCleanData
    \/ MetricsLoadData
    \/ CalculateSurveyAverages
    \/ PrintSummary
    \/ CalculateDistributionStatistics
    \/ CalculateComparativeStatistics
    \/ ComputeCollegeStatistics
    \/ \E field \in survey_cols : TopColleges(field)

SpecStats == StatsInit /\ [][StatsNext]_vars

(***************************************************************************)
(* The Streamlit applications on the records of an uploaded file.  tool    *)
(* names the application as Variants does, and copy5 is "survey_analysis_  *)
(* app copy 5.py".  A record carries item8, the cell of the eighth survey  *)
(* column, "" when it is empty or the file has no such column.  The file   *)
(* has at least one record.                                                *)
(***************************************************************************)
Applications == {"app", "v1", "v2", "copy_b", "copy3", "copy5"}

\* the columns of a complete uploaded file
KrAllColumns == KrOtherCols \cup SurveyItems

\* complete, without the eighth survey column, without the campus column
AppColumnSets ==
    {KrAllColumns, KrAllColumns \ {"seolmun8"}, KrAllColumns \ {"kaempeoseu"}}

AppItemVectors ==
    { <<"4", "5", "", "4", "5", "4", "5">>,
      <<"", "", "", "", "", "", "">>,
      <<"abc", "5", "4", "4", "4", "4", "4">> }

AppRecords ==
    [College : {"A", "B"}, Campus : {"S"}, CourseName : {"X"},
     items : AppItemVectors, item8 : {"", "5"}]

AppTables8 == UNION {[1..n -> AppRecords] : n \in 1..MaxRecords}

\* to_numeric on the columns the application takes for survey columns; eighth tells
\* whether the eighth one is among them and stays in the frame
CoerceAppRows(rows, eighth) ==
    [r \in DOMAIN rows |->
        [College |-> rows[r].College, Campus |-> rows[r].Campus,
         CourseName |-> rows[r].CourseName,
         items |-> [i \in DOMAIN rows[r].items |-> ToNumeric(rows[r].items[i])],
         item8 |-> IF eighth THEN ToNumeric(rows[r].item8) ELSE NaN,
         combined |-> NaN]]

\* the end of a call of an application
Shown(p, f, req) ==
    /\ phase' = p
    /\ failure' = f
    /\ request' = req
    /\ UNCHANGED <<tool, raw, ranking, mapperVars, sizeVars, classVars, loadVars, objectVars, siteVars>>

\* load_data of survey_analysis_app-v1-no-error.py on the records of the file
V1LoadRecords ==
    /\ tool = "v1"
    /\ phase = "start"
    /\ IF {"gyogwakodeu", "seolmun8"} \subseteq file.cols
       THEN /\ data' = Frame(CoerceAppRows(raw, FALSE),
                             EnglishColumns(KrToEnLiteral("v1"), file.cols \ {"seolmun8"}))
            /\ Shown("loaded", "none", "")
       ELSE /\ data' = data
            /\ Shown("failed", "KeyError", "")
    /\ UNCHANGED stats

\* the columns that load_data of survey_analysis_app-v2-no-error.py and of the second
\* class of "survey_analysis_app copy.py" keeps
KeptV2(cols) == cols \ {"seolmun8", "gyosumyeong", "gyobeon"}

\* load_data of these two, with the course_id column both add
V2LoadRecords ==
    /\ tool \in {"v2", "copy_b"}
    /\ phase = "start"
    /\ LET english == EnglishColumns(KrToEnLiteral(tool), KeptV2(file.cols))
       IN IF {"course_name", "course_number"} \subseteq english
          THEN /\ data' = Frame(CoerceAppRows(raw, FALSE), english \cup {"course_id"})
               /\ Shown("loaded", "none", "")
          ELSE /\ data' = data
               /\ Shown("failed", "KeyError", "")
    /\ UNCHANGED stats

\* load_data of "survey_analysis_app copy 3.py" on the records of the file
Copy3LoadRecords ==
    /\ tool = "copy3"
    /\ phase = "start"
    /\ LET english == EnglishColumns(KrToEnLiteral("copy3"), file.cols \cap columns_to_keep)
       IN IF (required_columns \cup survey_questions) \subseteq english
          THEN /\ data' = Frame(CoerceAppRows(raw, FALSE), english)
               /\ Shown("loaded", "none", "")
          ELSE /\ data' = data
               /\ Shown("failed", "none", "")
    /\ UNCHANGED stats

\* the cells of the survey columns of a row in "survey_analysis_app copy 5.py": every
\* column whose name starts with seolmun
SurveyCells(row, cols) ==
    IF "seolmun8" \in cols THEN Append(row.items, row.item8) ELSE row.items

\* load_data of "survey_analysis_app copy 5.py": the average score of a record is the
\* mean over its survey columns; a record has fewer than ten answers, so process_data
\* finds no course for any size range
Copy5LoadData ==
    /\ tool = "copy5"
    /\ phase = "start"
    /\ LET rows == CoerceAppRows(raw, "seolmun8" \in file.cols)
       IN data' = Frame([r \in DOMAIN rows |->
                           [rows[r] EXCEPT
                               !.combined = RowMean(SurveyCells(rows[r], file.cols))]],
                        file.cols \cup {"pyeonggyun jeomsu", "eungdapja su"})
    /\ Shown("loaded", "none", "")
    /\ UNCHANGED stats

\* column_types['demographic'] of v1 and the keys of column_types['grouping_options']
\* of the others: the group-by choices main offers
GroupingOptions(v) ==
    CASE v = "v1" -> {"campus", "college", "department", "course_type"}
      [] v \in {"v2", "copy_b"} -> {"campus", "college", "course_id"}
      [] v = "copy3" -> {"campus", "college", "course_name"}
      [] OTHER -> {}

\* the choice of main that stands for no grouping
NoGrouping(v) == IF v = "v1" THEN "None" ELSE "eopseum"

\* main passing the choice of the select box as it is
GroupByOfChoice(v, choice) == choice

\* what main passes to calculate_descriptive_stats for a choice of the select box
GroupByOf(v, choice) == IF choice = NoGrouping(v) THEN "" ELSE choice

\* the string that calculate_descriptive_stats itself takes for no grouping
Ungrouped(v) == IF v = "copy3" THEN "eopseum" ELSE "None"

\* the label of a survey column in the table returned: a grouped table has MultiIndex
\* columns, which are renamed for display
Label(v, field, grouped) ==
    IF grouped THEN GetDisplayName(Invert(KrToEnLiteral(v)), field) ELSE field

\* the table calculate_descriptive_stats builds when nothing is raised: group_by is ""
\* for None
DescriptiveTable(v, frame, group_by) ==
    LET grouped == group_by # "" /\ group_by # Ungrouped(v)
        by == IF grouped THEN group_by ELSE "all"
        groups == IF grouped THEN GroupKeys(frame.rows, by) ELSE {"all"}
    IN {[Agg(frame.rows, by, group, field, 100) EXCEPT
            !.field = Label(v, field, grouped)] :
        group \in groups, field \in survey_questions}

\* the values of group_by examined: what main passes for each choice it offers, None
\* (""), the strings for no grouping, and a name that is no column
GroupByArgs(v) ==
    {GroupByOf(v, choice) : choice \in GroupingOptions(v) \cup {NoGrouping(v)}}
        \cup {"", "None", "eopseum", "no_such_column"}

\* calculate_descriptive_stats(group_by): groupby on a column the frame does not have
\* raises KeyError, which the except clause reports (st.error, logger.error) before it
\* returns an empty DataFrame
CalculateDescriptiveStats(group_by) ==
    /\ tool \in {"v1", "v2", "copy_b", "copy3"}
    /\ phase = "loaded"
    /\ group_by \in GroupByArgs(tool)
    /\ IF group_by # "" /\ group_by # Ungrouped(tool) /\ group_by \notin data.cols
       THEN /\ stats' = {}
            /\ Shown("described", "KeyError", group_by)
       ELSE /\ stats' = DescriptiveTable(tool, data, group_by)
            /\ Shown("described", "none", group_by)
    /\ UNCHANGED data

\* the courses of groupby([course_id, gaeseoldangwadaehak]) in survey_analysis_app.py:
\* every pair of a course and a college that a record has
CourseKeys(rows) == {<<rows[r].CourseName, rows[r].College>> : r \in DOMAIN rows}

RECURSIVE Factorial(_)
Factorial(n) == IF n = 0 THEN 1 ELSE n * Factorial(n - 1)

\* load_data of survey_analysis_app.py, the row of course_stats for one course: count
\* and mean of every survey question, eungdapja su = the count of seolmun1, and
\* pyeonggyun jeomsu = the mean over the questions of the question means, which skips
\* a question nobody of the course answered.  The mean is the fraction mean / den.
CourseStats(rows, key) ==
    LET S == {r \in DOMAIN rows : <<rows[r].CourseName, rows[r].College>> = key}
        answered(q) == {r \in S : rows[r].items[q] # NaN}
        total(q) == SumOver([r \in DOMAIN rows |-> rows[r].items[q]], answered(q))
        Q == {q \in 1..7 : answered(q) # {}}
        common == Factorial(Cardinality(S))
        means == [q \in 1..7 |->
                    IF q \in Q THEN total(q) * (common \div Cardinality(answered(q)))
                    ELSE 0]
    IN [by |-> "course_id", group |-> key, field |-> "pyeonggyun jeomsu",
        count |-> Cardinality(answered(1)),
        mean |-> IF Q = {} THEN NaN ELSE SumOver(means, Q),
        den |-> IF Q = {} THEN 1 ELSE common * Cardinality(Q)]

\* load_data of survey_analysis_app.py on the records of the file: the per-course
\* table is kept in stats
AppLoadRecords ==
    /\ tool = "app"
    /\ phase = "start"
    /\ IF Aggregates(file)
       THEN LET rows == CoerceAppRows(raw, FALSE)
            IN /\ data' = Frame(rows, file.cols \cup {"course_id"})
               /\ stats' = {CourseStats(rows, key) : key \in CourseKeys(rows)}
               /\ Shown("loaded", "none", "")
       ELSE /\ UNCHANGED <<data, stats>>
            /\ Shown("failed", "ValueError", "")

\* get_top_courses of the second SurveyDataAnalyzer of "survey_analysis_app copy.py",
\* the table before it is sorted: avg_score is the mean of a record over the survey
\* columns, and a course gets the mean of avg_score over its records, rounded to two
\* decimals, and the number of its records
CourseAverages(rows) ==
    {[Agg(WithRowMeans(rows), "course_id", group, "avg_score", 100) EXCEPT
         !.count = Cardinality({r \in DOMAIN rows : Key(rows[r], "course_id") = group})] :
     group \in GroupKeys(rows, "course_id")}

\* get_top_courses(n=5): sort_values(ascending=False).head(n)
GetTopCourses ==
    /\ tool = "copy_b"
    /\ phase = "loaded"
    /\ \E q \in SortedByMean(CourseAverages(data.rows)) : ranking' = HeadRows(q, Top5)
    /\ phase' = "ranked"
    /\ failure' = "none"
    /\ UNCHANGED <<tool, raw, data, stats, request, mapperVars, sizeVars, classVars,
                   loadVars, objectVars, siteVars>>

AppsInit ==
    /\ tool \in Applications
    /\ file \in {File(TRUE, TRUE, cols, TRUE) : cols \in AppColumnSets}
    /\ raw \in AppTables8
    /\ "seolmun8" \notin file.cols => \A r \in DOMAIN raw : raw[r].item8 = ""
    /\ data = NoData
    /\ stats = {}
    /\ ranking = <<>>
    /\ phase = "start"
    /\ failure = "none"
    /\ request = ""
    /\ prog = "none"
    /\ pc = "done"
    /\ result = NoOutcome
    /\ trace = <<>>
    /\ stored = FALSE
    /\ written = {}
    /\ dirs = {}
    /\ MapperIdle
    /\ SizeIdle
    /\ ClassIdle
    /\ ObjectIdle
    /\ SiteIdle

AppsNext ==
    \/ V1LoadRecords
    \/ V2LoadRecords
    \/ Copy3LoadRecords
    \/ Copy5LoadData
    \/ AppLoadRecords
    \/ GetTopCourses
    \/ \E group_by \in UNION {GroupByArgs(v) : v \in Applications} :
          CalculateDescriptiveStats(group_by)

SpecApps == AppsInit /\ [][AppsNext]_vars

(***************************************************************************)
(* CourseEvalProcessor (course_evaluation_processor0104.py) as an object:  *)
(* its methods called in any order.  data holds the columns of self.data   *)
(* (the survey cells of the file are numerals), summary_stats the keys of  *)
(* the dict, trace the methods called, result what the last call gave.     *)
(***************************************************************************)
\* the number of method calls examined on one CourseEvalProcessor
MaxCalls == 3

\* the end of a method call: what the caller got, self.data, self.summary_stats and
\* the files written
Return(method, r, d, keys, wr) ==
    /\ calls < MaxCalls
    /\ calls' = calls + 1
    /\ trace' = Append(trace, method)
    /\ result' = r
    /\ data' = d
    /\ summary_stats' = keys
    /\ written' = written \cup wr
    /\ UNCHANGED <<prog, file, pc, stored, dirs, held, tool, raw, stats, ranking, phase,
                   failure, request, mapperVars, sizeVars, classVars, siteVars>>

\* CourseEvalProcessor.load_data
load_data ==
    /\ prog = "CourseEvalProcessor"
    /\ IF ~Exists(file)
       THEN Return("load_data", Outcome("False", "FileNotFoundError", FALSE, {}),
                   data, summary_stats, {})
       ELSE IF ~file.parses
       THEN Return("load_data", Outcome("False", "ParserError", FALSE, {}),
                   data, summary_stats, {})
       ELSE Return("load_data", Outcome("True", "none", FALSE, {}),
                   Frame(<<>>, file.cols), summary_stats, {})

\* CourseEvalProcessor.clean_data
clean_data ==
    /\ prog = "CourseEvalProcessor"
    /\ IF ~data.loaded
       THEN Return("clean_data", Outcome("False", "none", FALSE, {}),
                   data, summary_stats, {})
       ELSE IF ~(survey_cols \subseteq data.cols)
       THEN Return("clean_data", Outcome("none", "KeyError", TRUE, survey_cols \ data.cols),
                   data, summary_stats, {})
       ELSE Return("clean_data", Outcome("True", "none", FALSE, {}),
                   Frame(<<>>, data.cols \cup {"AvgSurveyScore", "ResponseCompleteness"}),
                   summary_stats, {})

\* the keys compute_statistics assigns, in its order
StatKeys ==
    << "total_records", "unique_courses", "unique_professors", "survey_means",
       "survey_medians", "college_stats" >>

\* the columns the value of each key is computed from
ColumnsOf(key) ==
    CASE key = "total_records" -> {}
      [] key = "unique_courses" -> {"CourseCode"}
      [] key = "unique_professors" -> {"ProfessorID"}
      [] key = "survey_means" -> survey_cols
      [] key = "survey_medians" -> survey_cols
      [] OTHER -> {"College", "AvgSurveyScore"}

\* CourseEvalProcessor.compute_statistics: the keys are assigned one after the other,
\* and a column that is not there is a KeyError that leaves the keys assigned so far
compute_statistics ==
    /\ prog = "CourseEvalProcessor"
    /\ LET failing == {i \in DOMAIN StatKeys : ~(ColumnsOf(StatKeys[i]) \subseteq data.cols)}
           first == CHOOSE i \in failing : \A j \in failing : i <= j
       IN IF ~data.loaded
          THEN Return("compute_statistics", Outcome("False", "none", FALSE, {}),
                      data, summary_stats, {})
          ELSE IF failing # {}
          THEN Return("compute_statistics",
                      Outcome("none", "KeyError", TRUE, ColumnsOf(StatKeys[first]) \ data.cols),
                      data, summary_stats \cup {StatKeys[i] : i \in 1..(first - 1)}, {})
          ELSE Return("compute_statistics", Outcome("True", "none", FALSE, {}),
                      data, summary_stats \cup {StatKeys[i] : i \in DOMAIN StatKeys}, {})

\* CourseEvalProcessor.generate_summary_report: returns the text of the report
generate_summary_report ==
    /\ prog = "CourseEvalProcessor"
    /\ LET absent == {i \in DOMAIN StatKeys : StatKeys[i] \notin summary_stats}
           first == CHOOSE i \in absent : \A j \in absent : i <= j
       IN IF summary_stats = {}
          THEN Return("generate_summary_report", Outcome("False", "none", FALSE, {}),
                      data, summary_stats, {})
          ELSE IF absent # {}
          THEN Return("generate_summary_report",
                      Outcome("none", "KeyError", TRUE, {StatKeys[first]}),
                      data, summary_stats, {})
          ELSE Return("generate_summary_report", Outcome("report", "none", FALSE, {}),
                      data, summary_stats, {})

\* CourseEvalProcessor.save_processed_data: to_csv may fail, which gives False
save_processed_data ==
    /\ prog = "CourseEvalProcessor"
    /\ IF ~data.loaded
       THEN Return("save_processed_data", Outcome("False", "none", FALSE, {}),
                   data, summary_stats, {})
       ELSE \/ Return("save_processed_data", Outcome("False", "OSError", FALSE, {}),
                      data, summary_stats, {})
            \/ Return("save_processed_data", Outcome("True", "none", FALSE, {}),
                      data, summary_stats, {"anon-course-eval-24_1Data-cp_processed.csv"})

\* CourseEvalProcessor.__init__
ProcessorInit ==
    /\ prog = "CourseEvalProcessor"
    /\ file \in CsvFiles
    /\ pc = "start"
    /\ result = NoOutcome
    /\ trace = <<>>
    /\ stored = FALSE
    /\ written = {}
    /\ dirs = {}
    /\ data = NoData
    /\ summary_stats = {}
    /\ calls = 0
    /\ held = DataNone
    /\ tool = "none"
    /\ raw = <<>>
    /\ stats = {}
    /\ ranking = <<>>
    /\ phase = "done"
    /\ failure = "none"
    /\ request = ""
    /\ MapperIdle
    /\ SizeIdle
    /\ ClassIdle
    /\ SiteIdle

ProcessorNext ==
    \/ load_data
    \/ clean_data
    \/ compute_statistics
    \/ generate_summary_report
    \/ save_processed_data

SpecProcessor == ProcessorInit /\ [][ProcessorNext]_vars

(***************************************************************************)
(* Claims about ColumnMapper, checked under SpecMapper.                    *)
(***************************************************************************)
Injective(d) == \A i, j \in 1..Len(d) : d[i][2] = d[j][2] => i = j

IsInverseOf(e, d) ==
    /\ Len(e) = Len(d)
    /\ \A i \in 1..Len(d) : \E j \in 1..Len(e) : e[j] = <<d[i][2], d[i][1]>>

AllIn(l, S) == \A i \in 1..Len(l) : l[i] \in S

\* C5: in every ColumnMapper variant kr_to_en is injective and en_to_kr is its exact
\* inverse; a list of table keys translated to English and back is the original list,
\* and a list of table values translated to Korean and back is the original list.
C5_RoundTrip ==
    /\ Injective(kr_to_en)
    /\ IsInverseOf(en_to_kr, kr_to_en)
    /\ (call.op = "to_english" /\ call.arg.t = "list" /\ AllIn(call.arg.l, Keys(kr_to_en)))
         => Convert(variant, en_to_kr, call.ret) = call.arg
    /\ (call.op = "to_korean" /\ call.arg.t = "list" /\ AllIn(call.arg.l, Values(kr_to_en)))
         => Convert(variant, kr_to_en, call.ret) = call.arg

\* a two-element list of keys that to_english really changed, in the largest table
C5_Witness ==
    /\ variant = "v1"
    /\ call.op = "to_english"
    /\ call.arg = PyList(<<"seolmun8", "nyeondo">>)
    /\ call.ret = PyList(<<"q8", "year">>)

\* the table of the direction of the last call
CallTable == IF call.op = "to_english" THEN kr_to_en ELSE en_to_kr

\* position i of the output is the input name when the table lacks it and the value
\* the table pairs with it otherwise
PositionOk(d, in, out) ==
    IF in \in Keys(d) THEN \E j \in 1..Len(d) : d[j] = <<in, out>> ELSE out = in

\* C6: to_english and to_korean return a name that is not in the table unchanged and at
\* its position, translate the mapped names of the same list, and leave kr_to_en and
\* en_to_kr as construction built them.
C6_UnknownUnchanged ==
    /\ Keys(kr_to_en) = Keys(KrToEnLiteral(variant))
    /\ IsInverseOf(en_to_kr, kr_to_en)
    /\ (call.op # "none" /\ call.arg.t = "list") =>
          /\ call.ret.t = "list"
          /\ Len(call.ret.l) = Len(call.arg.l)
          /\ \A i \in 1..Len(call.arg.l) :
                PositionOk(CallTable, call.arg.l[i], call.ret.l[i])
    /\ (call.op # "none" /\ call.arg.t = "str" /\ HasStrBranch(variant)
          /\ call.arg.s \notin Keys(CallTable)) => call.ret = call.arg

\* a list holding an unknown name and a mapped one
C6_Witness ==
    /\ call.op = "to_korean"
    /\ call.arg = PyList(<<"hakbeon", "q1">>)
    /\ call.ret = PyList(<<"hakbeon", "seolmun1">>)

\* C7: in every variant a call with one name as a string returns one string and a call
\* with a list of k names returns the list of their k translations.
C7_BothForms ==
    call.op # "none" =>
        /\ call.arg.t = "str" =>
              /\ call.ret.t = "str"
              /\ PositionOk(CallTable, call.arg.s, call.ret.s)
        /\ call.arg.t = "list" =>
              /\ call.ret.t = "list"
              /\ Len(call.ret.l) = Len(call.arg.l)
              /\ \A i \in 1..Len(call.arg.l) :
                    PositionOk(CallTable, call.arg.l[i], call.ret.l[i])

(***************************************************************************)
(* Claims about SizeRangeAnalyzer, checked under SpecSize.                 *)
(***************************************************************************)
\* the response counts the classification is examined on: 0 .. MaxResp
MaxResp == 120

\* the ranges (by index) whose bounds admit the count c: lower bound included, upper
\* bound excluded, no upper bound when max_size is None
RangesOf(c) ==
    {r \in 1..Len(size_ranges) :
        /\ c >= size_ranges[r].min_size
        /\ size_ranges[r].max_size = None \/ c < size_ranges[r].max_size}

\* the ranges whose stored top courses hold the course of rank n
ListedIn(n) ==
    {r \in 1..Len(size_ranges) :
        \E k \in 1..Len(size_ranges[r].data.rows) : size_ranges[r].data.rows[k].name = n}

RECURSIVE SumCounts(_)
SumCounts(rs) == IF rs = <<>> THEN 0 ELSE Head(rs).count + SumCounts(Tail(rs))

C3_BoundaryInUpperRange ==
    size_ranges # <<>> =>
        /\ \A r \in 1..3 : size_ranges[r].max_size = size_ranges[r + 1].min_size
        /\ size_ranges[4].max_size = None
        /\ [r \in 1..4 |-> size_ranges[r].min_size] = <<10, 21, 51, 101>>
        /\ processed =>
              /\ \A r \in 1..4 :
                    size_ranges[r].count =
                        Cardinality({i \in 1..Len(courses) :
                            /\ courses[i].resp >= size_ranges[r].min_size
                            /\ r < 4 => courses[i].resp < size_ranges[r + 1].min_size})
              /\ Len(courses) <= TopN =>
                    \A i \in 1..Len(courses) : \A r \in 2..4 :
                        courses[i].resp = size_ranges[r].min_size
                            => ListedIn(courses[i].name) = {r}

\* a processed table with one course on each shared boundary
C3_Witness ==
    /\ processed
    /\ \E i, j, k \in 1..Len(courses) :
          courses[i].resp = 21 /\ courses[j].resp = 51 /\ courses[k].resp = 101
    /\ [r \in 1..4 |-> size_ranges[r].count] = <<0, 1, 1, 1>>

Min(a, b) == IF a <= b THEN a ELSE b

\* C4: the top courses of a range are courses of that range only, min(10, number of
\* courses of the range) of them, in descending order of score with equal scores in
\* ascending order of course identifier; no course left out scores higher than one
\* that is listed; a range without courses has no list (None) and raises nothing.
C4_TopCoursesOrdered ==
    processed =>
        \A r \in 1..Len(size_ranges) :
            LET rows == size_ranges[r].data.rows
                members == {i \in 1..Len(courses) : r \in RangesOf(courses[i].resp)}
                listed == {rows[k].name : k \in 1..Len(rows)}
            IN /\ \A k \in 1..Len(rows) : \E i \in members : courses[i] = rows[k]
               /\ Len(rows) = Min(TopN, Cardinality(members))
               /\ Cardinality(listed) = Len(rows)
               /\ \A k, l \in 1..Len(rows) :
                     k < l => \/ rows[k].score > rows[l].score
                              \/ /\ rows[k].score = rows[l].score
                                 /\ rows[k].name < rows[l].name
               /\ \A i \in members :
                     courses[i].name \notin listed
                         => \A k \in 1..Len(rows) : courses[i].score <= rows[k].score
               /\ size_ranges[r].data.none <=> members = {}

(***************************************************************************)
(* Claims about the Small / Medium / Large / Very Large classifiers,       *)
(* checked under SpecClass.                                                *)
(***************************************************************************)
\* the classifier gave the group this label (each classifier that has run)
LabelledAs(l) ==
    /\ size_label # "" => size_label = l
    /\ cut_label # "" => cut_label = l

Performed(step) == \E i \in 1..Len(trace) : trace[i] = step

Ended == pc \in {"done", "raised"}

\* the columns the load cannot do without and the input does not have: for
\* survey_analysis_app.py the three of required_cols and seolmun1, whose count gives
\* eungdapja_su; for MetricsCalculator its required_columns
MissingColumns ==
    IF prog = "app" THEN (required_cols \cup {"seolmun1"}) \ file.cols
    ELSE MetricsRequired \ file.cols

\* C8: loading an input that lacks a required column ends with a validation error that
\* reaches the caller and names exactly the missing columns, before any coercion of
\* scores, aggregation or size classification.
C8_MissingColumnRaises ==
    (prog \in {"app", "metrics"} /\ Ended /\ file.parses /\ MissingColumns # {}) =>
        /\ result.raised
        /\ result.err = "ValueError"
        /\ result.named = MissingColumns
        /\ ~Performed("to_numeric")
        /\ ~Performed("groupby")
        /\ ~Performed("process_data")
        /\ ~Performed("classify")

NotFoundPrograms == {"metrics", "processor", "html"}

C10_AcceptsMinimalInput ==
    (/\ prog \in {"app", "v1", "copy3"}
     /\ Ended
     /\ file.parses
     /\ file.year_ok
     /\ {"gyogwamokmyeong", "gaeseoldangwadaehak"} \subseteq file.cols
     /\ file.cols \cap (SurveyItems \ {"seolmun8"}) # {}) =>
        /\ result.ret = "True"
        /\ stored

(***************************************************************************)
(* Claims about the analyzers.                                             *)
(***************************************************************************)
\* the cells of the input that are numbers
Numerals == {"3", "4", "5"}

\* the input as the tool sees it before the coercion: clean_data strips the strings of
\* the other columns first
BeforeCoercion == IF tool = "processor" THEN StripRows(raw) ELSE raw

\* C11: after load/clean every survey-score cell is a number or missing: a cell that is
\* a number keeps its value, a cell that cannot be converted becomes missing and nothing
\* is raised, the frame has as many rows as the input, and the columns that are not
\* scores have the values they had before the coercion.
C11_CoercedOrMissing ==
    data.loaded =>
        /\ phase = "loaded" => failure = "none"
        /\ Len(data.rows) = Len(raw)
        /\ \A r \in DOMAIN data.rows :
              /\ \A i \in 1..7 :
                    /\ data.rows[r].items[i] \in {NaN} \cup 1..5
                    /\ data.rows[r].items[i] = NaN <=> raw[r].items[i] \notin Numerals
                    /\ raw[r].items[i] = "3" => data.rows[r].items[i] = 3
                    /\ raw[r].items[i] = "4" => data.rows[r].items[i] = 4
                    /\ raw[r].items[i] = "5" => data.rows[r].items[i] = 5
              /\ data.rows[r].College = BeforeCoercion[r].College
              /\ data.rows[r].Campus = BeforeCoercion[r].Campus
              /\ data.rows[r].CourseName = BeforeCoercion[r].CourseName

\* a loaded frame one of whose rows had a cell that is not a number and no answer else
C11_Witness ==
    /\ data.loaded
    /\ phase = "loaded"
    /\ \E r \in DOMAIN raw :
          /\ raw[r].items[1] = "abc"
          /\ data.rows[r].items[1] = NaN
    /\ \E r \in DOMAIN raw : \A i \in 1..7 : raw[r].items[i] = ""

\* the records of the frame that have a value for the field
NonMissing(field) == {r \in DOMAIN data.rows : Value(data.rows[r], field) # NaN}

\* the rows of self.results for one grouping column and one field
Reported(by, field) == {s \in stats : s.by = by /\ s.field = field}

\* C12: for every grouping column and every score field, the count reported for a group
\* is the number of its records with a value for the field, and the counts of all the
\* groups add up to the number of values of the field in the whole record set, also
\* when records have no value in the grouping column.
C12_CountsAddUp ==
    (tool = "score" /\ phase = "averaged") =>
        \A by \in {"College", "Campus", "CourseName"}, field \in ScoreFields :
            /\ \A s \in Reported(by, field) :
                  s.count = Cardinality({r \in NonMissing(field) :
                                            Key(data.rows[r], by) = s.group})
            /\ SumOver([s \in Reported(by, field) |-> s.count], Reported(by, field))
                  = Cardinality(NonMissing(field))

\* the phases in which a tool has aggregated the combined score, with the name of its
\* column and the power of ten of its .round
Aggregated ==
    \/ tool = "score" /\ phase \in {"averaged", "done"}
    \/ tool = "processor" /\ phase = "computed"

CombinedField == IF tool = "score" THEN "SurveyCombined" ELSE "AvgSurveyScore"

Decimals == IF tool = "score" THEN 1000 ELSE 100

\* the records of a group that have a combined score
Scored(by, group) ==
    {r \in DOMAIN data.rows :
        Key(data.rows[r], by) = group /\ data.rows[r].combined # NaN}

\* the sum of the combined scores of these records, in units of 1/Scale
CombinedSum(S) == SumOver([r \in DOMAIN data.rows |-> data.rows[r].combined], S)

\* the combined score of every record is the mean of its items that are not missing,
\* and undefined when all seven are
CombinedIsRowMean ==
    \A r \in DOMAIN data.rows :
        LET items == data.rows[r].items
            seen == {i \in 1..7 : items[i] # NaN}
        IN IF seen = {} THEN data.rows[r].combined = NaN
           ELSE /\ data.rows[r].combined # NaN
                /\ data.rows[r].combined * Cardinality(seen)
                      = Scale * SumOver(items, seen)

\* the count of every group is the number of its records with a combined score
CombinedCounts ==
    \A s \in stats :
        s.field = CombinedField => s.count = Cardinality(Scored(s.by, s.group))

\* Scenario A: the records [4,5,missing,4,5,4,5] and [3,3,3,3,3,3,3] of college A
ScenarioA ==
    /\ Len(raw) = 2
    /\ raw[1].items = <<"4", "5", "", "4", "5", "4", "5">>
    /\ raw[2].items = <<"3", "3", "3", "3", "3", "3", "3">>
    /\ raw[1].College = "A"
    /\ raw[2].College = "A"

\* in Scenario A college A has count 2 and mean 3.75
ScenarioAResult ==
    ScenarioA =>
        \E s \in stats :
            /\ s.by = "College" /\ s.group = "A" /\ s.field = CombinedField
            /\ s.count = 2
            /\ s.mean * 100 = 375 * s.den

\* a record without any item is still counted in total_records
TotalRecords ==
    tool = "processor" =>
        \E s \in stats : s.field = "total_records" /\ s.count = Len(raw)

\* C13 as stated: the combined score of a record is the mean of its items that are not
\* missing and is undefined when all are; the combined score aggregated over a group has
\* count = the number of records of the group with a combined score and mean = the
\* arithmetic mean of their combined scores (count 2 and mean 3.75 in Scenario A); a
\* record without items is still counted in the total record count.
C13_MeanExact ==
    Aggregated =>
        /\ CombinedIsRowMean
        /\ CombinedCounts
        /\ ScenarioAResult
        /\ TotalRecords
        /\ \A s \in stats :
              (s.field = CombinedField /\ s.count > 0) =>
                  s.mean * s.count * Scale = s.den * CombinedSum(Scored(s.by, s.group))

\* C13, amended: as above, but the mean reported for a group is the arithmetic mean of
\* the combined scores rounded to three decimals (SurveyScoreAnalyzer) or two
\* (CourseEvalProcessor): it is the multiple of 1/1000 or 1/100 nearest to that mean.
C13_MeanRounded ==
    Aggregated =>
        /\ CombinedIsRowMean
        /\ CombinedCounts
        /\ ScenarioAResult
        /\ TotalRecords
        /\ \A s \in stats :
              (s.field = CombinedField /\ s.count > 0) =>
                  LET whole == s.count * Scale
                      exact == Decimals * CombinedSum(Scored(s.by, s.group))
                  IN /\ s.den = Decimals
                     /\ 2 * (s.mean * whole - exact) <= whole
                     /\ 2 * (exact - s.mean * whole) <= whole
        /\ \A s \in stats :
              (s.field = CombinedField /\ s.count = 0) => s.mean = NaN

\* the processor has aggregated a college whose mean, 25/6, is not a multiple of 1/100
\* and whose other record has no item at all
C13_Witness ==
    /\ tool = "processor"
    /\ phase = "computed"
    /\ Len(raw) = 2
    /\ raw[1].items = <<"abc", "5", "4", "4", "4", "4", "4">>
    /\ raw[2].items = <<"", "", "", "", "", "", "">>
    /\ raw[1].College = "B"
    /\ raw[2].College = "B"
    /\ \E s \in stats : s.group = "B" /\ s.count = 1 /\ s.mean = 417 /\ s.den = 100

\* the columns of the frame without any value
EmptyColumns ==
    {field \in ScoreFields : \A r \in DOMAIN data.rows : Value(data.rows[r], field) = NaN}

\* C14: when a score field, or a group and field, has no value at all, the aggregator
\* completes without raising and reports count = 0 with the other statistics undefined,
\* in calculate_distribution_statistics as well as in the grouped statistics.
C14_EmptyFieldReported ==
    /\ (tool = "statistics" /\ phase \notin {"start", "loaded"}) =>
          /\ failure = "none"
          /\ \A field \in EmptyColumns :
                \E s \in stats : s.field = field /\ s.count = 0 /\ s.mean = NaN
    /\ (tool = "score" /\ phase = "averaged") =>
          \A by \in {"College", "Campus", "CourseName"}, field \in ScoreFields :
             \A group \in GroupKeys(data.rows, by) :
                Valid(data.rows, by, group, field) = {} =>
                   \E s \in Reported(by, field) :
                      s.group = group /\ s.count = 0 /\ s.mean = NaN

\* the states in which a top-N list has been produced
TopListProduced ==
    \/ tool = "metrics" /\ phase = "ranked"
    \/ tool = "score" /\ phase = "done"

\* C15: a group whose value for the ranked score is undefined, all of its values being
\* missing, never appears in a top-N list for that score, also when fewer than N groups
\* have a defined score.
C15_UndefinedNeverRanked ==
    TopListProduced => \A i \in DOMAIN ranking : ranking[i].mean # NaN

Described == tool \in {"v1", "v2", "copy_b", "copy3"} /\ phase = "described"

\* the values of group_by that stand for a call without grouping: None, and what main
\* passes when the user chooses no grouping
WithoutGrouping == {"", GroupByOf(tool, NoGrouping(tool))}

\* C17: calculate_descriptive_stats called without grouping (None, or the choice of
\* no grouping in the user interface) takes the whole record set as one group: it
\* returns one set of statistics for each survey question, computed over all records,
\* whose count is the number of values of that question in the whole data.
C17_UngroupedIsOneGroup ==
    (Described /\ request \in WithoutGrouping) =>
        /\ failure = "none"
        /\ {s.field : s \in stats} = survey_questions
        /\ Cardinality(stats) = Cardinality(survey_questions)
        /\ \A s \in stats :
              /\ s.group = "all"
              /\ s.count = Cardinality({r \in DOMAIN raw :
                                          raw[r].items[ItemIndex(s.field)] \in Numerals})
              /\ s.count = 0 <=> s.mean = NaN

\* an ungrouped call on two records of different colleges, one of which has no value
\* for the first question
C17_Witness ==
    /\ Described
    /\ tool = "v2"
    /\ request = ""
    /\ Len(raw) = 2
    /\ raw[1].College # raw[2].College
    /\ \E s \in stats : s.field = "q1" /\ s.count = 1
    /\ \E s \in stats : s.field = "q2" /\ s.count = 2

\* C18: aggregating with a group-by field that the loaded records do not have fails with
\* an invalid-group-key error raised to the caller, no empty or partial table is
\* returned, and every group-by choice the application offers after a successful load
\* names a column of the loaded records.
C18_InvalidGroupKeyRaised ==
    /\ (/\ tool \in {"v1", "v2", "copy_b", "copy3"}
        /\ phase \in {"described", "raised"}
        /\ request \notin {"", Ungrouped(tool)}
        /\ request \notin data.cols)
          => phase = "raised" /\ failure = "KeyError"
    /\ (tool \in {"v1", "v2", "copy_b", "copy3"} /\ data.loaded)
          => GroupingOptions(tool) \subseteq data.cols

\* C19: the eighth survey item is left out of the scores by every loader: when the input
\* has it, the average score of a record is computed from items 1..7 only, and an input
\* without it loads successfully.
C19_ItemEightExcluded ==
    /\ (tool = "copy5" /\ data.loaded) =>
          \A r \in DOMAIN data.rows :
              data.rows[r].combined = RowMean(data.rows[r].items)
    /\ (tool \in Applications /\ file.cols = KrAllColumns \ {"seolmun8"}) =>
          phase # "failed"

(***************************************************************************)
(* Claims about the order of the stages.                                   *)
(***************************************************************************)
\* the stage a step of trace belongs to: 1 load, 2 clean / validate, 3 aggregate /
\* classify, 4 report / save; 0 for a step that is none of them
StageOf(step) ==
    CASE step \in {"open", "read_csv"} -> 1
      [] step \in {"columns", "clean", "to_numeric", "combine"} -> 2
      [] step \in {"groupby", "metrics", "statistics", "process_data", "classify"} -> 3
      [] step \in {"report", "write"} -> 4
      [] OTHER -> 0

\* the pipelines of the claim: main of the processor, main of the advanced analyzer,
\* load_data of survey_analysis_app.py
Pipelines == {"processor", "advanced", "app"}

\* whether the load of the run succeeds: load_data returns True, and for the uploaded
\* file of the application read_csv returns
LoadSucceeds ==
    CASE prog = "processor" -> file.exists /\ file.parses
      [] prog = "advanced" -> file.exists /\ file.parses /\ survey_cols \subseteq file.cols
      [] OTHER -> file.parses

C21_FalseWritesNothing ==
    (prog = "class_size" /\ pc = "done") =>
        /\ result.ret \in {"True", "False"}
        /\ result.ret = "True" =>
              /\ written = {"class_sizes.csv"}
              /\ result.err = "none"
        /\ result.ret = "False" => written = {}

\* the place of a label in the order Small, Medium, Large, Very Large; 0 for any other
SizeRank(label) ==
    CASE label = "Small" -> 1 [] label = "Medium" -> 2 [] label = "Large" -> 3
      [] label = "Very Large" -> 4 [] OTHER -> 0

\* C28: the two classifications agree: for every class size n >= 1 categorize_size(n)
\* is the label of the bin that classify_courses_by_size gives a course of n rows, and
\* both are monotone: a larger n never gets a smaller category.
C28_ClassificationsAgree ==
    /\ (size_label # "" /\ cut_label # "") =>
          /\ size_label = cut_label
          /\ SizeRank(size_label) > 0
    /\ SizeRank(categorize_size(students)) <= SizeRank(categorize_size(students + 1))
    /\ SizeRank(Cut(students, Bins, Labels)) <= SizeRank(Cut(students + 1, Bins, Labels))

\* both classifications have labelled a class at a bin edge
C28_Witness ==
    /\ students \in {15, 30, 75}
    /\ size_label # ""
    /\ cut_label # ""


(***************************************************************************)
(* Claims about the per-course table of survey_analysis_app.py             *)
(***************************************************************************)
\* a valid upload: load_data gets as far as building the per-course table, and the
\* table has a course in some size range
ValidWithRangedCourse ==
    /\ prog = "app"
    /\ Aggregates(file)
    /\ FirstNonEmpty(SizeRangesInit, courses) # 0

\* C26: the per-course table that load_data passes to process_data has the columns
\* process_data reads, so for a valid input with a course in some size range
\* process_data fails on no column lookup and load_data returns True
C26_TableHasColumns ==
    (ValidWithRangedCourse /\ pc = "done") =>
        /\ result.err # "KeyError"
        /\ result.ret = "True"

\* process_data on the rows of one size range of a new SizeRangeAnalyzer
FreshRange(r, df) ==
    {ProcessRange(SizeRangesInit[r], df, sorted) :
        sorted \in SortedDescending(Filter(df, SizeRangesInit[r]))}

\* C24: after any sequence of load_data calls on one SurveyDataAnalyzer whose last call
\* returned True, analyzer.data is the table of that call and the count, percentage and
\* data of every SizeRange are what a new analyzer computes from that table alone
C24_RecomputedOnEveryLoad ==
    (prog = "app" /\ pc = "done" /\ result.ret = "True") =>
        /\ held = DataFrame(courses)
        /\ \A r \in DOMAIN size_ranges : size_ranges[r] \in FreshRange(r, courses)

\* a second load returned True on a table that has a course
C24_Witness ==
    /\ prog = "app"
    /\ pc = "done"
    /\ calls = MaxLoads
    /\ result.ret = "True"
    /\ courses # <<>>

\* C25: load_data of survey_analysis_app.py is atomic on failure: a call that returns
\* False leaves analyzer.data and the count, percentage and data of every SizeRange
\* as they were before the call
C25_AtomicOnFailure ==
    [][(prog = "app" /\ pc = "start" /\ pc' = "done" /\ result'.ret = "False") =>
          /\ held' = held
          /\ size_ranges' = size_ranges]_vars

(***************************************************************************)
(* Claims about the summaries of process_data                              *)
(***************************************************************************)
\* the positions of the courses whose response count lies in range r
MembersOf(r) == {i \in 1..Len(courses) : r \in RangesOf(courses[i].resp)}

\* what process_data leaves in every range, apart from the sum of the percentages
RangeSummaries ==
    /\ \A r \in 1..Len(size_ranges) :
          LET range == size_ranges[r]
              rows == range.data.rows
          IN /\ range.count = Cardinality(MembersOf(r))
             /\ range.percentage = IF Len(courses) = 0 THEN Pct(0, 1)
                                   ELSE Pct(range.count * 100, Len(courses))
             /\ range.data.none <=> range.count = 0
             /\ ~range.data.none =>
                   /\ Len(rows) = Min(TopN, range.count)
                   /\ \A k \in 1..Len(rows) : \E i \in MembersOf(r) : courses[i] = rows[k]
    /\ SumCounts(size_ranges) <= Len(courses)

\* the sum of the four percentages, as numbers
TotalPercentage ==
    Sum(Sum(FloatPercentage(size_ranges[1].percentage),
            FloatPercentage(size_ranges[2].percentage)),
        Sum(FloatPercentage(size_ranges[3].percentage),
            FloatPercentage(size_ranges[4].percentage)))

Hundred == Float(<<1, 1, 0, 0, 1, 0, 0>>, 0)

\* 2 to the power -44, less than 1e-13
RoundingError == Float(<<1>>, -44)

\* C29 as stated: after process_data, for every SizeRange count is the number of courses
\* whose response count lies in the range, percentage is count / total * 100 (0 for an
\* empty input), data is None exactly when count = 0 and otherwise holds min(10, count)
\* courses of the range; the counts sum to at most the number of courses and the
\* percentages to at most 100
C29_SummariesWithinHundred ==
    processed =>
        /\ RangeSummaries
        /\ ~Exceeds(TotalPercentage, Hundred)

\* C29 as amended: the same, with the percentages summing to at most 100 up to the
\* rounding of the float division and multiplication
C29_SummariesUpToRounding ==
    processed =>
        /\ RangeSummaries
        /\ ~Exceeds(TotalPercentage, Sum(Hundred, RoundingError))

\* process_data has run on a table with more than ten courses in one range
C29_Witness ==
    /\ processed
    /\ \E r \in 1..Len(size_ranges) :
          /\ size_ranges[r].count > TopN
          /\ Len(size_ranges[r].data.rows) = TopN

(***************************************************************************)
(* Claims about the stages of CourseEvalProcessor, under SpecProcessor     *)
(***************************************************************************)
\* the method that a step calls
Called(method) ==
    /\ calls' = calls + 1
    /\ trace' = Append(trace, method)

\* clean_data has completed on the data held: it added the computed columns
Cleaned == data.loaded /\ "AvgSurveyScore" \in data.cols

\* compute_statistics has completed: it assigned its last key
Computed == "college_stats" \in summary_stats

\* a call of a method whose prerequisite stage has not completed
Premature ==
    \/ ~data.loaded /\ \/ Called("clean_data")
                       \/ Called("compute_statistics")
                       \/ Called("save_processed_data")
    \/ ~Cleaned /\ Called("compute_statistics")
    \/ ~Computed /\ Called("generate_summary_report")

\* C27: in any sequence of CourseEvalProcessor operations, an operation whose
\* prerequisite stage has not completed returns False without raising and leaves data
\* and summary_stats unchanged
C27_PrematureCallRefused ==
    [][Premature =>
          /\ result'.ret = "False"
          /\ ~result'.raised
          /\ data' = data
          /\ summary_stats' = summary_stats]_vars

(***************************************************************************)
(* Claims about the course average of the variants, under SpecApps         *)
(***************************************************************************)
\* whether two course rows carry the same average
SameAverage(a, b) ==
    IF a.mean = NaN \/ b.mean = NaN THEN a.mean = b.mean
    ELSE a.mean * b.den = b.mean * a.den

\* the records of the file as both variants hold them after to_numeric
CoercedRecords == CoerceAppRows(raw, FALSE)

\* C30: the course average is the same in every variant: for every course the value
\* load_data of survey_analysis_app.py computes equals the value get_top_courses of
\* "survey_analysis_app copy.py" computes from the same records, also when answers
\* are missing
C30_SameCourseAverage ==
    /\ (tool = "app" /\ phase = "loaded") =>
          \A a \in stats : \A b \in CourseAverages(CoercedRecords) :
              a.group[1] = b.group => SameAverage(a, b)
    /\ (tool = "copy_b" /\ phase = "ranked") =>
          \A i \in DOMAIN ranking :
              \A key \in CourseKeys(CoercedRecords) :
                  key[1] = ranking[i].group
                      => SameAverage(CourseStats(CoercedRecords, key), ranking[i])

(***************************************************************************)
(* Claims about the site scripts, under SpecSite                           *)
(***************************************************************************)
\* the HTML files under the html directory
HtmlFiles == {html_files[i] : i \in DOMAIN html_files}

\* C22: when update_pages.py is run with --preview, no HTML file under the html
\* directory is written or modified during the run
C22_PreviewWritesNothing ==
    (prog = "update_pages" /\ preview) => written \cap HtmlFiles = {}

\* C23: when convert_excel_to_csv, load_metrics or update_html_file has returned or
\* raised, no file handle opened by the call remains open
C23_HandlesReleased ==
    prog \in {"update_pages", "excel_to_csv", "html"} => handles = {}

============================================================================
